---- MODULE Spec2Model ----
(***************************************************************************)
(* A model of sosilogikk (src/src/sosilogikk.py): the line scanner         *)
(* _read_sosi_file, the table assembly _sosi_to_geodataframe behind        *)
(* read_sosi, and the writer _write_geodataframe_to_sosi behind            *)
(* write_sosi.                                                             *)
(*                                                                         *)
(* Representation.                                                         *)
(*  - A physical line is a record [ind, toks]: `ind` leading blanks, the   *)
(*    whitespace-separated tokens `toks` (joined by single blanks) and the *)
(*    line terminator.  line.strip() is the token sequence.                *)
(*  - A Python str that may hold blanks (an attribute value, a stripped    *)
(*    reference line) is the sequence of its tokens.                       *)
(*  - None and numpy.nan are the empty sequence; an optional float is a    *)
(*    sequence of at most one number.                                      *)
(*  - A float is an integer number of hundredths (1.0 is 100).             *)
(*  - A shapely geometry is the constructor's name and the coordinate list *)
(*    handed to it; what shapely does with the list (validation, ring      *)
(*    closure) is library code outside this repository.                    *)
(*  - Strings are kept in ASCII: the letter O-slash of the format's        *)
(*    keywords is written OE and A-ring is written AA (NOE for the         *)
(*    coordinate keyword, OMRAADE, ORIGO-NOE, MIN-NOE, MAX-NOE,            *)
(*    SOSI-NIVAA).                                                         *)
(***************************************************************************)
EXTENDS Integers, Sequences, FiniteSets, TLC

\* ------------------------------------------------------------------ bounds

\* Geometry blocks a generated file holds at most.
MaxObjects == 3

\* Rows a frame holds at most after the caller has added rows to it.
MaxRows == 4

\* Entries a coordinate list handed to _convert_to_2d_if_mixed holds at most.
MaxLen == 3

\* ------------------------------------------------------------ str helpers

None == << >>

NaN == << >>

StartsWith(s, p) == Len(s) >= Len(p) /\ SubSeq(s, 1, Len(p)) = p

DropChars(s, n) == SubSeq(s, n + 1, Len(s))

DropLast(s) == SubSeq(s, 1, Len(s) - 1)

RECURSIVE LStripDots(_)
LStripDots(s) ==
    IF Len(s) > 0 /\ SubSeq(s, 1, 1) = "." THEN LStripDots(DropChars(s, 1)) ELSE s

\* line.strip()
Strip(line) == line.toks

\* stripped_line.startswith(p), p without blanks
LineStartsWith(stripped_line, p) ==
    stripped_line # << >> /\ StartsWith(stripped_line[1], p)

\* stripped_line[n:].split(maxsplit=1), as the key followed by the tokens of the value
SplitAfter(stripped_line, n) ==
    LET first == DropChars(stripped_line[1], n)
    IN  IF Len(first) = 0 THEN Tail(stripped_line) ELSE <<first>> \o Tail(stripped_line)

DigitChars == <<"0", "1", "2", "3", "4", "5", "6", "7", "8", "9">>

IsDigit(c) == \E i \in 1..10 : DigitChars[i] = c

DigitVal(c) == (CHOOSE i \in 1..10 : DigitChars[i] = c) - 1

RECURSIVE AllDigits(_)
AllDigits(s) ==
    Len(s) = 0 \/ (IsDigit(SubSeq(s, 1, 1)) /\ AllDigits(DropChars(s, 1)))

RECURSIVE NatVal(_)
NatVal(s) ==
    IF Len(s) = 0 THEN 0
    ELSE NatVal(DropLast(s)) * 10 + DigitVal(SubSeq(s, Len(s), Len(s)))

DotPos(s) ==
    IF \E i \in 1..Len(s) : SubSeq(s, i, i) = "."
    THEN CHOOSE i \in 1..Len(s) :
            SubSeq(s, i, i) = "." /\ \A j \in 1..(i - 1) : SubSeq(s, j, j) # "."
    ELSE 0

Unsigned(s) == IF StartsWith(s, "-") THEN DropChars(s, 1) ELSE s

IntPart(s) == IF DotPos(s) = 0 THEN s ELSE SubSeq(s, 1, DotPos(s) - 1)

FracPart(s) == IF DotPos(s) = 0 THEN "" ELSE DropChars(s, DotPos(s))

\* float(s) succeeds (decimal notation; the generated files use no other)
IsFloat(s) ==
    LET u == Unsigned(s)
    IN  /\ AllDigits(IntPart(u))
        /\ AllDigits(FracPart(u))
        /\ Len(IntPart(u)) + Len(FracPart(u)) > 0

\* float(s), in hundredths
ToFloat(s) ==
    LET u == Unsigned(s)
        f == FracPart(u)
        hundredths ==
            IF Len(f) = 0 THEN 0
            ELSE IF Len(f) = 1 THEN NatVal(f) * 10
            ELSE NatVal(SubSeq(f, 1, 2))
        v == NatVal(IntPart(u)) * 100 + hundredths
    IN  IF StartsWith(s, "-") THEN 0 - v ELSE v

\* ------------------------------------------------------- generated files

L(toks) == [ind |-> 0, toks |-> toks]

Indented(toks) == [ind |-> 1, toks |-> toks]

\* What a file may start with: a header that states ENHET under TRANSPAR, a
\* header without ENHET, ENHET under another subsection, and the TRANSPAR
\* lines with no .HODE line before them.
GoodHeader ==
    << L(<<".HODE">>), L(<<"!", "kommentar">>), L(<<"..TRANSPAR">>), L(<<"...ENHET", "1">>) >>

NoEnhetHeader == << L(<<".HODE">>), L(<<"..TRANSPAR">>), L(<<"...KOORDSYS", "22">>) >>

WrongSectionHeader == << L(<<".HODE">>), L(<<"..OMRAADE">>), L(<<"...ENHET", "1">>) >>

NoHodeHeader == << L(<<"..TRANSPAR">>), L(<<"...ENHET", "1">>) >>

\* A header with the unit of a centimetre
CentimetreHeader == << L(<<".HODE">>), L(<<"..TRANSPAR">>), L(<<"...ENHET", "0.01">>) >>

\* A header with a subsection and keys the parser does not know, one of the
\* keys without a value
UnknownKeysHeader ==
    << L(<<".HODE">>), L(<<"..EIER", "x">>), L(<<"...FOO", "1">>), L(<<"..TRANSPAR">>),
       L(<<"...ENHET", "1">>), L(<<"...BAR", "2">>), L(<<"...BAZ">>) >>

\* A header that states every field of TRANSPAR
FullHeader ==
    << L(<<".HODE">>), L(<<"..TRANSPAR">>), L(<<"...ENHET", "0.01">>),
       L(<<"...VERT-DATUM", "NN2000">>), L(<<"...KOORDSYS", "25">>),
       L(<<"...ORIGO-NOE", "100", "200">>) >>

HeaderChunks ==
    {GoodHeader, NoEnhetHeader, WrongSectionHeader, NoHodeHeader, CentimetreHeader,
     UnknownKeysHeader}

\* Points: one coordinate; two coordinates; none; one coordinate and the lines
\* of a following .TEKST object, which the scan knows no marker for.
PunktOne ==
    << L(<<".PUNKT", "1:">>), Indented(<<"..X", "v">>), L(<<"..NOE">>), L(<<"1", "2">>) >>

PunktTwo ==
    << L(<<".PUNKT", "2:">>), L(<<"..X", "v">>), L(<<"..NOE">>), L(<<"1", "2">>),
       L(<<"3", "4">>) >>

PunktNone == << L(<<".PUNKT", "3:">>), L(<<"..X", "v">>) >>

\* A point whose marker line has no serial number
PunktBare == << L(<<".PUNKT">>), L(<<"..X", "v">>), L(<<"..NOE">>), L(<<"1", "2">>) >>

PunktTekst ==
    << L(<<".PUNKT", "14:">>), L(<<"..X", "v">>), L(<<"..NOE">>), L(<<"1", "2">>),
       L(<<".TEKST", "15:">>), L(<<"..STRENG", "abc">>) >>

\* Curves: OBJTYPE of one token; of two; ENDRET H instead; neither; OBJTYPE
\* and no coordinate; coordinates and no attribute.
KurveKP1 ==
    << L(<<".KURVE", "4:">>), L(<<"..OBJTYPE", "KP1">>), L(<<"..NOE">>), L(<<"1", "2">>),
       L(<<"3", "4">>) >>

KurveKP2 ==
    << L(<<".KURVE", "5:">>), L(<<"..OBJTYPE", "Vei", "KP2">>), L(<<"..NOE">>),
       L(<<"3", "4">>), L(<<"5", "6">>) >>

KurveHistorical ==
    << L(<<".KURVE", "6:">>), L(<<"..ENDRET", "H">>), L(<<"..NOE">>), L(<<"1", "2">>),
       L(<<"3", "4">>) >>

KurveNoObjtype ==
    << L(<<".KURVE", "7:">>), L(<<"..X", "v">>), L(<<"..NOE">>), L(<<"1", "2">>),
       L(<<"3", "4">>) >>

KurveNoCoordinates == << L(<<".KURVE", "8:">>), L(<<"..OBJTYPE", "KP1">>) >>

KurveNoAttributes ==
    << L(<<".KURVE", "9:">>), L(<<"..NOE">>), L(<<"1", "2">>), L(<<"3", "4">>) >>

\* Surfaces: two references; three, the middle one to no curve; none; one to no
\* curve and no attribute.
FlateTwoRefs ==
    << L(<<".FLATE", "10:">>), L(<<"..X", "v">>), L(<<"KP1">>), L(<<"KP2">>), L(<<"..NOE">>),
       L(<<"5", "5">>) >>

FlateThreeRefs ==
    << L(<<".FLATE", "11:">>), L(<<"..X", "v">>), L(<<"KP2">>), L(<<"KP9">>), L(<<"KP1">>),
       L(<<"..NOE">>), L(<<"5", "5">>) >>

FlateNoRefs ==
    << L(<<".FLATE", "12:">>), L(<<"..X", "v">>), L(<<"..NOE">>), L(<<"5", "5">>),
       L(<<"6", "6">>) >>

FlateNoAttributes ==
    << L(<<".FLATE", "13:">>), L(<<"KP9">>), L(<<"..NOE">>), L(<<"5", "5">>) >>

FlateRefsOnly ==
    << L(<<".FLATE", "14:">>), L(<<"..X", "v">>), L(<<"KP1">>) >>

\* A second curve that is known by KP1; a surface with a reference line of two
\* ids, one that is the beginning of an id, and one that is an id
KurveKP1Again ==
    << L(<<".KURVE", "16:">>), L(<<"..OBJTYPE", "Gjerde", "KP1">>), L(<<"..NOE">>),
       L(<<"7", "8">>), L(<<"9", "10">>) >>

FlateWholeLine ==
    << L(<<".FLATE", "15:">>), L(<<"..X", "v">>), L(<<"KP1", "KP2">>), L(<<"KP">>),
       L(<<"KP1">>), L(<<"..NOE">>), L(<<"5", "5">>) >>

\* The terminator, alone or with more lines after it.
Terminator == << L(<<".SLUTT">>) >>

TerminatorAndMore ==
    << L(<<".SLUTT">>), L(<<"etter", "slutt">>), L(<<"..X", "v">>), L(<<"..NOE">>),
       L(<<"1", "2">>) >>

\* The files of SpecScan (the scan alone): curves and surfaces.
ScanHeaders == {GoodHeader, NoHodeHeader}

ScanObjects ==
    {PunktTekst, KurveKP1, KurveKP2, KurveHistorical, KurveNoObjtype, KurveNoCoordinates,
     KurveNoAttributes, FlateTwoRefs, FlateThreeRefs, FlateNoRefs, FlateNoAttributes,
     FlateRefsOnly, KurveKP1Again, FlateWholeLine}

ScanEnds == {Terminator}

\* Coordinate blocks: a decimal line; a 3D point; a 3D curve; a curve with a
\* 3D and a 2D block; a surface over a 2D and a 3D curve; lines with too few
\* components or a component that is no number; a line with a component too
\* many; an empty line; comment lines between the lines of an object; a
\* reference line inside a coordinate block; a line after a single-dot line.
PunktDecimal ==
    << L(<<".PUNKT", "20:">>), L(<<"..X", "v">>), L(<<"..NOE">>),
       L(<<"1000.00", "2000.00">>) >>

Punkt3D ==
    << L(<<".PUNKT", "21:">>), L(<<"..X", "v">>), L(<<"..NOEH">>), L(<<"1", "2", "3">>) >>

KurveKP3 ==
    << L(<<".KURVE", "22:">>), L(<<"..OBJTYPE", "KP3">>), L(<<"..NOEH">>),
       L(<<"1", "2", "3">>), L(<<"3", "4", "5">>) >>

KurveMixed ==
    << L(<<".KURVE", "23:">>), L(<<"..OBJTYPE", "KP4">>), L(<<"..NOEH">>),
       L(<<"1", "2", "3">>), L(<<"..NOE">>), L(<<"3", "4">>) >>

FlateMixedRefs ==
    << L(<<".FLATE", "24:">>), L(<<"..X", "v">>), L(<<"KP1">>), L(<<"KP3">>), L(<<"..NOE">>),
       L(<<"5", "5">>) >>

PunktShort == << L(<<".PUNKT", "25:">>), L(<<"..X", "v">>), L(<<"..NOE">>), L(<<"1">>) >>

PunktNotNumeric ==
    << L(<<".PUNKT", "26:">>), L(<<"..X", "v">>), L(<<"..NOE">>), L(<<"1", "x">>) >>

PunktShort3D ==
    << L(<<".PUNKT", "27:">>), L(<<"..X", "v">>), L(<<"..NOEH">>), L(<<"1", "2">>) >>

PunktExtraToken ==
    << L(<<".PUNKT", "28:">>), L(<<"..X", "v">>), L(<<"..NOE">>), L(<<"1", "2", "zz">>) >>

PunktEmptyLine ==
    << L(<<".PUNKT", "29:">>), L(<<"..X", "v">>), L(<<"..NOE">>), L(<< >>), L(<<"1", "2">>) >>

PunktCommented ==
    << L(<<".PUNKT", "30:">>), L(<<"!", "a">>), L(<<"..X", "v">>), L(<<"!b">>), L(<<"..NOE">>),
       Indented(<<"!", "1", "2">>), L(<<"1", "2">>) >>

FlateRefInBlock ==
    << L(<<".FLATE", "31:">>), L(<<"..X", "v">>), L(<<"..NOE">>), L(<<"5", "5">>),
       L(<<"KP1">>) >>

PunktAfterDot ==
    << L(<<".PUNKT", "32:">>), L(<<"..X", "v">>), L(<<"..NOE">>), L(<<"1", "2">>),
       L(<<".TEKST", "15:">>), L(<<"zz">>) >>

\* The files of SpecCoord (the scan alone): coordinate blocks.
CoordHeaders == {GoodHeader, NoHodeHeader}

\* A point with an attribute line inside its coordinate block
PunktAttributeInBlock ==
    << L(<<".PUNKT", "33:">>), L(<<"..NOE">>), L(<<"1", "2">>), L(<<"..KVALITET", "10">>),
       L(<<"3", "4">>) >>

\* A point whose attribute lines are lines of a header; a point followed by a
\* second header
PunktHeaderKeys ==
    << L(<<".PUNKT", "50:">>), L(<<"..TRANSPAR">>), L(<<"...ENHET", "5">>), L(<<"..OMRAADE">>),
       L(<<"...MIN-NOE", "7", "7">>), L(<<"..NOE">>), L(<<"1", "2">>) >>

PunktThenHeader ==
    << L(<<".PUNKT", "51:">>), Indented(<<"..X", "v">>), L(<<"..NOE">>), L(<<"1", "2">>),
       L(<<".HODE">>), L(<<"..TRANSPAR">>), L(<<"...KOORDSYS", "23">>), L(<<"..OMRAADE">>),
       L(<<"...MIN-NOE", "1", "2">>) >>

CoordObjects ==
    {PunktDecimal, Punkt3D, KurveKP1, KurveKP3, KurveMixed, FlateMixedRefs, PunktShort,
     PunktNotNumeric, PunktShort3D, PunktExtraToken, PunktEmptyLine, PunktCommented,
     FlateRefInBlock, PunktAfterDot, PunktHeaderKeys, PunktThenHeader,
     PunktAttributeInBlock}

CoordEnds == {Terminator}

\* A token that is the single byte 0xE6: a letter in the single-byte encodings,
\* not decodable as UTF-8
HighByte == "<E6>"

\* A header that declares a character set encoding_map does not know
TegnsettHeader ==
    << L(<<".HODE">>), L(<<"..TEGNSETT", "DOSN8">>), L(<<"..TRANSPAR">>),
       L(<<"...ENHET", "1">>) >>

\* A header with a name in a single-byte encoding and no declaration
Latin1Header ==
    << L(<<".HODE">>), L(<<"..EIER", HighByte>>), L(<<"..TRANSPAR">>), L(<<"...ENHET", "1">>) >>

\* A point with a name in a single-byte encoding
PunktLatin1 ==
    << L(<<".PUNKT", "40:">>), L(<<"..NAVN", HighByte>>), L(<<"..NOE">>), L(<<"1", "2">>) >>

\* A declaration line that follows whatever precedes it
LateTegnsett == << L(<<"..TEGNSETT", "ISO8859-1">>) >>

\* The files of SpecEncoding: a header, at most MaxObjects of the chunks, the
\* terminator.
EncodingHeaders == {GoodHeader, NoHodeHeader, TegnsettHeader, Latin1Header}

EncodingObjects == {PunktOne, KurveKP1, FlateNoRefs, PunktAfterDot, PunktLatin1, LateTegnsett}

RECURSIVE ChunkRuns(_)
ChunkRuns(n) ==
    IF n = 0 THEN {<< >>}
    ELSE ChunkRuns(n - 1) \cup {r \o o : r \in ChunkRuns(n - 1), o \in EncodingObjects}

EncodingFiles ==
    {h \o r \o Terminator : h \in EncodingHeaders, r \in ChunkRuns(MaxObjects)}

\* The files of SpecWrite (the writer): a point without coordinate, a point
\* without OBJTYPE, a curve with OBJTYPE.
WriteHeaders == {GoodHeader, NoHodeHeader}

WriteObjects == {PunktNone, PunktAfterDot, KurveKP1}

WriteEnds == {Terminator}

\* The files of SpecRoundTrip (read, write, read again): the objects of
\* SpecWrite under a header with ENHET alone, one with every field and one
\* without its .HODE line.
RoundTripHeaders == {GoodHeader, FullHeader, NoHodeHeader}

\* The files of Spec (the whole pipeline): points and a curve under any header.
FileObjects == {PunktOne, PunktTwo, PunktNone, PunktTekst, KurveKP1, Punkt3D, PunktBare}

FileEnds == {Terminator, TerminatorAndMore}

\* ------------------------------------------------------------------ state

VARIABLES
    file,                   \* the lines of the input file determined so far
    file_encoding,          \* the encoding the file is opened with for the scan
    line_number,            \* lines the scan loop has consumed
    pc,                     \* "scan", "failed", "parsed", "read", "written", "regenerated";
                            \* "detect" before the encoding is resolved;
                            \* "convert", "converted" around a call of the normalization
    in_header, current_section, enhet_scale, header_metadata, header_extent,
    capturing, geom_type, current_attributes, coordinates, flate_refs,
    expecting_coordinates, coordinate_dim, current_object,
    object_id, sosi_index, kurve_coordinates, parsed_data, all_attributes,
    emitted_from,           \* history: the object_id each emitted record was finalized under
    gdf, metadata, output, write_result

fileVars == <<file, file_encoding>>

hdrVars == <<current_section, enhet_scale, header_metadata, header_extent>>

objVars ==
    <<capturing, geom_type, current_attributes, coordinates, flate_refs,
      expecting_coordinates, coordinate_dim, current_object>>

resVars ==
    <<object_id, sosi_index, kurve_coordinates, parsed_data, all_attributes, emitted_from>>

outVars == <<gdf, metadata, output, write_result>>

vars == <<file, file_encoding, line_number, pc, in_header, hdrVars, objVars, resVars, outVars>>

\* ------------------------------------------------------------ dict helpers

EmptyDict == [k \in {} |-> None]

SetKey(d, k, v) == [x \in (DOMAIN d) \cup {k} |-> IF x = k THEN v ELSE d[x]]

Last(s) == s[Len(s)]

RECURSIVE Join(_)
Join(toks) ==
    IF Len(toks) = 0 THEN ""
    ELSE IF Len(toks) = 1 THEN toks[1]
    ELSE toks[1] \o " " \o Join(Tail(toks))

\* --------------------------------------------------------------- geometry

Point(coord) == [type |-> "Point", coords |-> <<coord>>]

LineString(coords) == [type |-> "LineString", coords |-> coords]

Polygon(coords) == [type |-> "Polygon", coords |-> coords]

\* [error, value]: the list a comprehension of _convert_to_2d_if_mixed builds, or
\* the ValueError of unpacking a 3-tuple into (x, y)
ConvertTo2dIfMixed(coords, dimension) ==
    LET has_2d == \E i \in 1..Len(coords) : Len(coords[i]) = 2
    IN  IF has_2d
        THEN [error |-> FALSE,
              value |-> [i \in 1..Len(coords) |-> <<coords[i][1], coords[i][2]>>]]
        ELSE IF dimension = <<3>>
        THEN [error |-> \E i \in 1..Len(coords) : Len(coords[i]) # 3, value |-> coords]
        ELSE [error |-> \E i \in 1..Len(coords) : Len(coords[i]) # 2, value |-> coords]

\* ------------------------------------------------------------------- Init

Init ==
    /\ file = << >>
    /\ file_encoding = "utf-8-sig"
    /\ line_number = 0
    /\ pc = "scan"
    /\ in_header = FALSE
    /\ current_section = None
    /\ enhet_scale = None
    /\ header_metadata =
        [k \in {"ENHET", "VERT-DATUM", "KOORDSYS", "ORIGO-NOE", "SOSI-VERSJON",
                "SOSI-NIVAA", "OBJEKTKATALOG"} |-> None]
    /\ header_extent = [min_n |-> None, min_e |-> None, max_n |-> None, max_e |-> None]
    /\ capturing = FALSE
    /\ geom_type = None
    /\ current_attributes = EmptyDict
    /\ coordinates = << >>
    /\ flate_refs = << >>
    /\ expecting_coordinates = FALSE
    /\ coordinate_dim = None
    /\ current_object = << >>
    /\ object_id = 0
    /\ sosi_index = EmptyDict
    /\ kurve_coordinates = EmptyDict
    /\ parsed_data = [geometry |-> << >>, attributes |-> << >>]
    /\ all_attributes = {}
    /\ emitted_from = << >>
    /\ gdf = << >>
    /\ metadata = None
    /\ output = << >>
    /\ write_result = None

\* ------------------------------------------------------------ the file

\* A comment test that knows the lone '!' only
IsCommentWord(t) == t # << >> /\ t[1] = "!"

IsComment(stripped_line) == LineStartsWith(stripped_line, "!")

IsGeometryMarker(stripped_line) ==
    \E m \in {".KURVE", ".PUNKT", ".FLATE"} : LineStartsWith(stripped_line, m)

IsObjectBoundary(stripped_line) ==
    IsGeometryMarker(stripped_line) \/ LineStartsWith(stripped_line, ".SLUTT")

GeometryBlocks(lines) ==
    Cardinality({i \in 1..Len(lines) : IsGeometryMarker(Strip(lines[i]))})

HasTerminator(lines) ==
    \E i \in 1..Len(lines) : LineStartsWith(Strip(lines[i]), ".SLUTT")

\* The file the scan reads is determined chunk by chunk, each time the scan
\* has consumed what is there: a header first, then geometry blocks, then
\* possibly the terminator.
Extend(headers, objects, ends) ==
    /\ pc = "scan"
    /\ line_number = Len(file)
    /\ ~HasTerminator(file)
    /\ \E chunk \in (IF file = << >> THEN headers
                     ELSE ends \cup
                          (IF GeometryBlocks(file) < MaxObjects THEN objects ELSE {})) :
          file' = file \o chunk
    /\ UNCHANGED <<file_encoding, line_number, pc, in_header, hdrVars, objVars, resVars,
                   outVars>>

ExtendFile == Extend(HeaderChunks, FileObjects, FileEnds)

ExtendScan == Extend(ScanHeaders, ScanObjects, ScanEnds)

ExtendCoord == Extend(CoordHeaders, CoordObjects, CoordEnds)

ExtendWrite == Extend(WriteHeaders, WriteObjects, WriteEnds)

ExtendRoundTrip == Extend(RoundTripHeaders, WriteObjects, WriteEnds)

\* The line can be decoded with encoding: every byte is a character of the
\* single-byte encodings, the byte HighByte alone is no UTF-8 sequence
Decodes(l, encoding) ==
    encoding # "utf-8-sig" \/ \A k \in 1..Len(l.toks) : l.toks[k] # HighByte

\* The scan loop has a next line, decoded with file_encoding
Scanning ==
    pc = "scan" /\ line_number < Len(file) /\ Decodes(file[line_number + 1], file_encoding)

\* The next line without its leading blanks
LineWithoutIndent == [ind |-> 0, toks |-> file[line_number + 1].toks]

line == file[line_number + 1]

stripped_line == Strip(line)

\* ------------------------------------------------------- object finalization

\* ref_id in kurve_coordinates, ref_id the stripped reference line
Resolves(ref_id, table) == Join(ref_id) \in DOMAIN table

\* A resolution that stops at the first reference the table does not hold
RECURSIVE ResolveRefsUntilUnresolved(_, _)
ResolveRefsUntilUnresolved(refs, table) ==
    IF refs = << >> \/ ~Resolves(Head(refs), table) THEN << >>
    ELSE table[Join(Head(refs))] \o ResolveRefsUntilUnresolved(Tail(refs), table)

\* A resolution by the first id of a reference line
RECURSIVE ResolveRefsByFirstId(_, _)
ResolveRefsByFirstId(refs, table) ==
    IF refs = << >> THEN << >>
    ELSE (IF Head(refs) # << >> /\ Head(Head(refs)) \in DOMAIN table
          THEN table[Head(Head(refs))] ELSE << >>)
         \o ResolveRefsByFirstId(Tail(refs), table)

\* flate_coords: the coordinate lists of the references the table holds, in listed order
RECURSIVE ResolveRefs(_, _)
ResolveRefs(refs, table) ==
    IF refs = << >> THEN << >>
    ELSE (IF Resolves(Head(refs), table) THEN table[Join(Head(refs))] ELSE << >>)
         \o ResolveRefs(Tail(refs), table)

\* A fallback to the last own coordinate instead of the first
FlateGeometryLastCoordinate(refs, table, uniform_coordinates) ==
    IF refs # << >> /\ ResolveRefs(refs, table) # << >>
    THEN Polygon(ResolveRefs(refs, table))
    ELSE Point(uniform_coordinates[Len(uniform_coordinates)])

\* The geometry a .FLATE object is given
FlateGeometry(refs, table, uniform_coordinates) ==
    IF refs # << >> /\ ResolveRefs(refs, table) # << >>
    THEN Polygon(ResolveRefs(refs, table))
    ELSE Point(uniform_coordinates[1])

\* A kurve_id taken from the first token of OBJTYPE instead of the last
KurveIdFirstToken(attrs, id) ==
    IF "OBJTYPE" \in DOMAIN attrs THEN Head(attrs["OBJTYPE"])
    ELSE "kurve_" \o ToString(id)

\* The coordinates on the lines from line k of the file to the end of its block
RECURSIVE CoordinatesFrom(_)
CoordinatesFrom(k) ==
    IF k > Len(file) \/ IsObjectBoundary(Strip(file[k])) THEN << >>
    ELSE (IF /\ Len(Strip(file[k])) = 2
             /\ IsFloat(Strip(file[k])[1]) /\ IsFloat(Strip(file[k])[2])
          THEN << <<ToFloat(Strip(file[k])[2]), ToFloat(Strip(file[k])[1])>> >>
          ELSE << >>)
         \o CoordinatesFrom(k + 1)

\* A table filled by a scan ahead: the curves closed so far and, under the
\* last token of their OBJTYPE, the curves of the rest of the file
CurvesOfWholeFile ==
    LET objtype == {k \in 1..Len(file) :
                      /\ Len(Strip(file[k])) >= 2
                      /\ Strip(file[k])[1] = "..OBJTYPE"
                      /\ \E g \in 1..(k - 1) :
                            /\ Strip(file[g]) # << >>
                            /\ Strip(file[g])[1] = ".KURVE"
                            /\ \A h \in (g + 1)..k : ~IsObjectBoundary(Strip(file[h]))}
        ids == {Last(Strip(file[k])) : k \in objtype}
    IN  kurve_coordinates @@
        [id \in ids |-> CoordinatesFrom((CHOOSE k \in objtype : Last(Strip(file[k])) = id) + 1)]

\* The table a .FLATE object's references are looked up in when it is closed
KnownCurves == kurve_coordinates

\* kurve_id of a .KURVE object with attributes attrs
KurveId(attrs, id) ==
    IF "OBJTYPE" \in DOMAIN attrs THEN Last(attrs["OBJTYPE"])
    ELSE "kurve_" \o ToString(id)

\* The ValueError of a .KURVE with neither OBJTYPE nor ENDRET H, or the
\* AttributeError of an OBJTYPE line without a value (nan has no split)
KurveIdError(attrs) ==
    IF "OBJTYPE" \in DOMAIN attrs THEN attrs["OBJTYPE"] = NaN
    ELSE ~("ENDRET" \in DOMAIN attrs /\ attrs["ENDRET"] = <<"H">>)

\* The object a marker or terminator line closes, inside the scan loop
\* (the line is the one that closes it)
Finalize(closing_line) ==
    LET nonempty == coordinates # << >> /\ DOMAIN current_attributes # {}
        conv == ConvertTo2dIfMixed(coordinates, coordinate_dim)
        uniform_coordinates == conv.value
        is_marker == IsGeometryMarker(closing_line)
        ref_error == is_marker /\ Len(closing_line) < 2
        attrs ==
            IF is_marker /\ ~ref_error
            THEN SetKey(current_attributes, "SOSI_REF", <<DropLast(closing_line[2])>>)
            ELSE current_attributes
        kurve == geom_type = <<".KURVE">>
        geoms ==
            IF kurve THEN <<LineString(uniform_coordinates)>>
            ELSE IF geom_type = <<".PUNKT">>
            THEN (IF Len(uniform_coordinates) = 1 THEN <<Point(uniform_coordinates[1])>>
                  ELSE << >>)
            ELSE IF geom_type = <<".FLATE">>
            THEN <<FlateGeometry(flate_refs, KnownCurves, uniform_coordinates)>>
            ELSE << >>
        emitted == nonempty /\ geoms # << >>
    IN  [error |-> nonempty /\ (conv.error \/ ref_error \/ (kurve /\ KurveIdError(attrs))),
         parsed_data |->
            IF emitted
            THEN [geometry |-> parsed_data.geometry \o geoms,
                  attributes |-> Append(parsed_data.attributes, attrs)]
            ELSE parsed_data,
         emitted_from |-> IF emitted THEN Append(emitted_from, object_id) ELSE emitted_from,
         kurve_coordinates |->
            IF nonempty /\ kurve
            THEN SetKey(kurve_coordinates, KurveId(attrs, object_id), uniform_coordinates)
            ELSE kurve_coordinates,
         sosi_index |-> SetKey(sosi_index, object_id, current_object),
         object_id |-> object_id + 1]

\* ------------------------------------------------------------ the scan loop

\* An error that is swallowed: the scan goes on with the next line
ContinueAfterError ==
    /\ pc' = pc
    /\ line_number' = line_number + 1

Fail ==
    /\ pc' = "failed"
    /\ line_number' = line_number + 1

\* A line starting with '!'
SkipComment ==
    /\ Scanning
    /\ IsComment(stripped_line)
    /\ line_number' = line_number + 1
    /\ UNCHANGED <<fileVars, pc, in_header, hdrVars, objVars, resVars, outVars>>

\* The line '.HODE'
EnterHeader ==
    /\ Scanning
    /\ ~IsComment(stripped_line)
    /\ stripped_line = <<".HODE">>
    /\ in_header' = TRUE
    /\ line_number' = line_number + 1
    /\ UNCHANGED <<fileVars, pc, hdrVars, objVars, resVars, outVars>>

NotSpecial ==
    /\ Scanning
    /\ ~IsComment(stripped_line)
    /\ stripped_line # <<".HODE">>
    /\ ~IsObjectBoundary(stripped_line)

\* A line starting with .KURVE, .PUNKT, .FLATE or .SLUTT
MarkerLine ==
    /\ Scanning
    /\ ~IsComment(stripped_line)
    /\ stripped_line # <<".HODE">>
    /\ IsObjectBoundary(stripped_line)
    /\ IF capturing /\ Finalize(stripped_line).error
       THEN /\ Fail
            /\ UNCHANGED <<fileVars, in_header, hdrVars, objVars, resVars, outVars>>
       ELSE /\ line_number' = line_number + 1
            /\ in_header' = FALSE
            /\ IF capturing
               THEN LET fin == Finalize(stripped_line)
                    IN  /\ parsed_data' = fin.parsed_data
                        /\ emitted_from' = fin.emitted_from
                        /\ kurve_coordinates' = fin.kurve_coordinates
                        /\ sosi_index' = fin.sosi_index
                        /\ object_id' = fin.object_id
               ELSE UNCHANGED <<parsed_data, emitted_from, kurve_coordinates, sosi_index,
                                object_id>>
            /\ current_attributes' = EmptyDict
            /\ coordinates' = << >>
            /\ capturing' = TRUE
            /\ geom_type' = <<stripped_line[1]>>
            /\ flate_refs' = << >>
            /\ expecting_coordinates' = FALSE
            /\ coordinate_dim' = None
            /\ current_object' = <<line>>
            /\ UNCHANGED <<fileVars, pc, hdrVars, all_attributes, outVars>>

\* min_n, min_e = map(float, attr_value.split())
IsFloatPair(attr_value) ==
    Len(attr_value) = 2 /\ IsFloat(attr_value[1]) /\ IsFloat(attr_value[2])

\* The tests on ENHET under any subsection (a header parser without the
\* current_section tests)
UnderAnySection(section, name) == TRUE

\* current_section == '..TRANSPAR', current_section == '..OMRÅDE'
UnderSection(section, name) == section = <<name>>

\* A line read in header mode
HeaderLine ==
    /\ NotSpecial
    /\ in_header
    /\ IF LineStartsWith(stripped_line, "..") /\ ~LineStartsWith(stripped_line, "...")
       THEN /\ current_section' = <<stripped_line[1]>>
            /\ line_number' = line_number + 1
            /\ UNCHANGED <<pc, enhet_scale, header_metadata, header_extent>>
       ELSE IF LineStartsWith(stripped_line, "...")
       THEN LET parts == SplitAfter(stripped_line, 3)
                attr_name == parts[1]
                attr_value == Tail(parts)
                transpar == UnderSection(current_section, "..TRANSPAR")
                omraade == UnderSection(current_section, "..OMRAADE")
                enhet == transpar /\ attr_name = "ENHET"
                text == transpar /\ attr_name \in {"VERT-DATUM", "KOORDSYS", "ORIGO-NOE"}
                minno == omraade /\ attr_name = "MIN-NOE"
                maxno == omraade /\ attr_name = "MAX-NOE"
            IN  IF \/ Len(parts) < 2
                   \/ enhet /\ ~(Len(attr_value) = 1 /\ IsFloat(attr_value[1]))
                   \/ (minno \/ maxno) /\ ~IsFloatPair(attr_value)
                THEN Fail /\ UNCHANGED hdrVars
                ELSE /\ line_number' = line_number + 1
                     /\ enhet_scale' = IF enhet THEN <<ToFloat(attr_value[1])>> ELSE enhet_scale
                     /\ header_metadata' =
                            IF enhet
                            THEN [header_metadata EXCEPT !["ENHET"] = <<ToFloat(attr_value[1])>>]
                            ELSE IF text
                            THEN [header_metadata EXCEPT ![attr_name] = attr_value]
                            ELSE header_metadata
                     /\ header_extent' =
                            IF minno
                            THEN [header_extent EXCEPT !.min_n = <<ToFloat(attr_value[1])>>,
                                                       !.min_e = <<ToFloat(attr_value[2])>>]
                            ELSE IF maxno
                            THEN [header_extent EXCEPT !.max_n = <<ToFloat(attr_value[1])>>,
                                                       !.max_e = <<ToFloat(attr_value[2])>>]
                            ELSE header_extent
                     /\ UNCHANGED <<pc, current_section>>
       ELSE /\ line_number' = line_number + 1
            /\ UNCHANGED <<pc, hdrVars>>
    /\ UNCHANGED <<fileVars, in_header, objVars, resVars, outVars>>

\* Capture that goes on in header mode
CaptureInHeader == NotSpecial /\ capturing

Capture == NotSpecial /\ ~in_header /\ capturing

\* A captured line starting with '..': a coordinate-block key or an attribute
AttributeLine ==
    /\ Capture
    /\ LineStartsWith(stripped_line, "..")
    /\ current_object' = Append(current_object, line)
    /\ LET key_value == SplitAfter(stripped_line, 2)
           key == LStripDots(key_value[1])
           value == IF Len(key_value) >= 2 THEN Tail(key_value) ELSE NaN
       IN  IF key_value = << >>
           THEN /\ Fail
                /\ UNCHANGED <<expecting_coordinates, coordinate_dim, current_attributes,
                               all_attributes>>
           ELSE /\ line_number' = line_number + 1
                /\ pc' = pc
                /\ IF key \in {"NOE", "NOEH"}
                   THEN /\ expecting_coordinates' = TRUE
                        /\ coordinate_dim' = IF key = "NOEH" THEN <<3>> ELSE <<2>>
                        /\ UNCHANGED <<current_attributes, all_attributes>>
                   ELSE /\ expecting_coordinates' = FALSE
                        /\ current_attributes' = SetKey(current_attributes, key, value)
                        /\ all_attributes' = all_attributes \cup {key}
                        /\ UNCHANGED coordinate_dim
    /\ UNCHANGED <<fileVars, in_header, hdrVars, capturing, geom_type, coordinates, flate_refs,
                   object_id, sosi_index, kurve_coordinates, parsed_data, emitted_from,
                   outVars>>

\* The components kept in the file's order: (north, east[, height])
ParseCoordinateUnswapped(parts, dim) ==
    IF dim = <<2>> THEN <<ToFloat(parts[1]), ToFloat(parts[2])>>
    ELSE <<ToFloat(parts[1]), ToFloat(parts[2]), ToFloat(parts[3])>>

\* The coordinate of a line under ..NØ or ..NØH: (east, north[, height])
ParseCoordinate(parts, dim) ==
    IF dim = <<2>> THEN <<ToFloat(parts[2]), ToFloat(parts[1])>>
    ELSE <<ToFloat(parts[2]), ToFloat(parts[1]), ToFloat(parts[3])>>

\* IndexError (too few components) or ValueError (float) of the same lines
CoordinateError(parts, dim) ==
    LET n == IF dim = <<2>> THEN 2 ELSE 3
    IN  Len(parts) < n \/ \E i \in 1..n : ~IsFloat(parts[i])

\* A captured line without a leading dot while coordinates are expected
CoordinateLine ==
    /\ Capture
    /\ ~LineStartsWith(stripped_line, "..")
    /\ expecting_coordinates /\ ~LineStartsWith(stripped_line, ".")
    /\ current_object' = Append(current_object, line)
    /\ IF CoordinateError(stripped_line, coordinate_dim)
       THEN Fail /\ UNCHANGED coordinates
       ELSE /\ line_number' = line_number + 1
            /\ pc' = pc
            /\ coordinates' = Append(coordinates, ParseCoordinate(stripped_line, coordinate_dim))
    /\ UNCHANGED <<fileVars, in_header, hdrVars, capturing, geom_type, current_attributes,
                   flate_refs, expecting_coordinates, coordinate_dim, resVars, outVars>>

\* A single-dot line that leaves the coordinate block open
SingleDotLineKeepsBlock ==
    /\ Capture
    /\ ~LineStartsWith(stripped_line, "..")
    /\ ~(expecting_coordinates /\ ~LineStartsWith(stripped_line, "."))
    /\ LineStartsWith(stripped_line, ".")
    /\ current_object' = Append(current_object, line)
    /\ line_number' = line_number + 1
    /\ UNCHANGED <<fileVars, pc, in_header, hdrVars, capturing, geom_type, current_attributes,
                   coordinates, flate_refs, expecting_coordinates, coordinate_dim, resVars,
                   outVars>>

\* A captured line with one leading dot that is no marker
SingleDotLine ==
    /\ Capture
    /\ ~LineStartsWith(stripped_line, "..")
    /\ ~(expecting_coordinates /\ ~LineStartsWith(stripped_line, "."))
    /\ LineStartsWith(stripped_line, ".")
    /\ current_object' = Append(current_object, line)
    /\ expecting_coordinates' = FALSE
    /\ line_number' = line_number + 1
    /\ UNCHANGED <<fileVars, pc, in_header, hdrVars, capturing, geom_type, current_attributes,
                   coordinates, flate_refs, coordinate_dim, resVars, outVars>>

\* Any other captured line: a reference line of a .FLATE, or nothing
OtherLine ==
    /\ Capture
    /\ ~LineStartsWith(stripped_line, ".")
    /\ ~expecting_coordinates
    /\ current_object' = Append(current_object, line)
    /\ flate_refs' =
        IF geom_type = <<".FLATE">> /\ LineStartsWith(stripped_line, "KP")
        THEN Append(flate_refs, stripped_line)
        ELSE flate_refs
    /\ line_number' = line_number + 1
    /\ UNCHANGED <<fileVars, pc, in_header, hdrVars, capturing, geom_type, current_attributes,
                   coordinates, expecting_coordinates, coordinate_dim, resVars, outVars>>

\* A line outside the header before any object is open
IgnoreLine ==
    /\ NotSpecial
    /\ ~in_header
    /\ ~capturing
    /\ line_number' = line_number + 1
    /\ UNCHANGED <<fileVars, pc, in_header, hdrVars, objVars, resVars, outVars>>

\* ------------------------------------------------------------ end of input

\* After the loop: the last object, the ENHET check, the returned dictionary
EndOfFile ==
    /\ pc = "scan"
    /\ line_number = Len(file)
    /\ file # << >>
    /\ LET nonempty == capturing /\ coordinates # << >> /\ DOMAIN current_attributes # {}
           conv == ConvertTo2dIfMixed(coordinates, coordinate_dim)
           uniform_coordinates == conv.value
           geoms ==
               IF geom_type = <<".KURVE">> THEN <<LineString(uniform_coordinates)>>
               ELSE IF geom_type = <<".PUNKT">> /\ Len(uniform_coordinates) = 1
               THEN <<Point(uniform_coordinates[1])>>
               ELSE IF geom_type = <<".FLATE">>
               THEN <<FlateGeometry(flate_refs, KnownCurves, uniform_coordinates)>>
               ELSE << >>
       IN  IF (nonempty /\ conv.error) \/ enhet_scale = None
           THEN pc' = "failed" /\ UNCHANGED <<parsed_data, emitted_from, sosi_index>>
           ELSE /\ pc' = "parsed"
                /\ IF nonempty
                   THEN /\ parsed_data' =
                            [geometry |-> parsed_data.geometry \o geoms,
                             attributes |-> Append(parsed_data.attributes, current_attributes)]
                        /\ emitted_from' =
                            IF geoms # << >> THEN Append(emitted_from, object_id)
                            ELSE emitted_from
                        /\ sosi_index' = SetKey(sosi_index, object_id, current_object)
                   ELSE UNCHANGED <<parsed_data, emitted_from, sosi_index>>
    /\ UNCHANGED <<fileVars, line_number, in_header, hdrVars, objVars, object_id,
                   kurve_coordinates, all_attributes, outVars>>

\* ------------------------------------------------------------- read_sosi

\* A scaling that is applied a second time
ScaleCoordinateTwice(c, scale_factor) ==
    IF Len(c) = 2
    THEN <<(c[1] * scale_factor * scale_factor) \div 10000,
           (c[2] * scale_factor * scale_factor) \div 10000>>
    ELSE <<(c[1] * scale_factor * scale_factor) \div 10000,
           (c[2] * scale_factor * scale_factor) \div 10000, c[3]>>

\* shapely.affinity.scale(geom, xfact, yfact, origin=(0, 0)): height is kept
ScaleCoordinate(c, scale_factor) ==
    IF Len(c) = 2 THEN <<(c[1] * scale_factor) \div 100, (c[2] * scale_factor) \div 100>>
    ELSE <<(c[1] * scale_factor) \div 100, (c[2] * scale_factor) \div 100, c[3]>>

\* _scale_geometries, for one geometry
ScaleGeometry(geom, scale_factor) ==
    IF scale_factor # 100
    THEN [geom EXCEPT !.coords =
            [i \in 1..Len(geom.coords) |-> ScaleCoordinate(geom.coords[i], scale_factor)]]
    ELSE geom

Min(a, b) == IF a <= b THEN a ELSE b

SetMin(S) == CHOOSE x \in S : \A y \in S : x <= y

SetMax(S) == CHOOSE x \in S : \A y \in S : x >= y

\* The values on axis k of all coordinates of the rows' geometries
AxisValues(rows, k) ==
    UNION {{rows[i].geometry.coords[j][k] : j \in 1..Len(rows[i].geometry.coords)} :
              i \in 1..Len(rows)}

\* gdf.total_bounds is (minx, miny, maxx, maxy), nan for no geometry; the code
\* unpacks it as min_n, min_e, max_n, max_e
TotalBounds(rows) ==
    IF AxisValues(rows, 1) = {}
    THEN [min_n |-> NaN, min_e |-> NaN, max_n |-> NaN, max_e |-> NaN]
    ELSE [min_n |-> <<SetMin(AxisValues(rows, 1))>>, min_e |-> <<SetMin(AxisValues(rows, 2))>>,
          max_n |-> <<SetMax(AxisValues(rows, 1))>>, max_e |-> <<SetMax(AxisValues(rows, 2))>>]

\* float('inf') and float('-inf'), told from a finite float by their length
Inf == <<0, 1>>

NegInf == <<0, 0 - 1>>

\* The extent _sosi_to_geodataframe returns: min(inf, x) and max(-inf, x) of
\* the bounds, which keep inf and -inf when the bound is nan
Extent(rows) ==
    [min_n |-> IF TotalBounds(rows).min_n = NaN THEN Inf ELSE TotalBounds(rows).min_n,
     min_e |-> IF TotalBounds(rows).min_e = NaN THEN Inf ELSE TotalBounds(rows).min_e,
     max_n |-> IF TotalBounds(rows).max_n = NaN THEN NegInf ELSE TotalBounds(rows).max_n,
     max_e |-> IF TotalBounds(rows).max_e = NaN THEN NegInf ELSE TotalBounds(rows).max_e]

\* The columns of pandas.DataFrame(attributes), padded with all_attributes
Columns(attributes, attribute_names) ==
    UNION {DOMAIN attributes[i] : i \in 1..Len(attributes)} \cup attribute_names

\* The rows of the GeoDataFrame _sosi_to_geodataframe builds for one file.
\* sources[i] is the history value of geometry i (no column of the frame).
GeoDataFrame(data, attribute_names, scale_factor, sources) ==
    LET min_length == Min(Len(data.geometry), Len(data.attributes))
        columns == Columns(SubSeq(data.attributes, 1, min_length), attribute_names)
    IN  [i \in 1..min_length |->
            [geometry |-> ScaleGeometry(data.geometry[i], scale_factor),
             attributes |->
                [k \in columns |->
                    IF k \in DOMAIN data.attributes[i] THEN data.attributes[i][k] ELSE NaN],
             original_id |-> i - 1,
             parsed_from |-> sources[i]]]

\* read_sosi after _read_sosi_file has returned: the frame and the metadata
ReadSosi ==
    /\ pc = "parsed"
    /\ pc' = "read"
    /\ gdf' = GeoDataFrame(parsed_data, all_attributes, enhet_scale[1], emitted_from)
    /\ metadata' =
        <<[enhet_scale |-> enhet_scale[1],
           extent |-> Extent(gdf'),
           header |-> header_metadata,
           sosi_index |-> sosi_index,
           all_attributes |-> all_attributes]>>
    /\ UNCHANGED <<fileVars, line_number, in_header, hdrVars, objVars, resVars, output,
                   write_result>>

\* row.get('original_id') of a row that has none
NoOriginalId == 0 - 1

\* The frame is as read_sosi returned it
Unmodified ==
    gdf = GeoDataFrame(parsed_data, all_attributes, enhet_scale[1], emitted_from)

RemoveAt(s, i) == SubSeq(s, 1, i - 1) \o SubSeq(s, i + 1, Len(s))

\* The caller removes one row of the frame (once)
DropRow ==
    /\ pc = "read"
    /\ Unmodified
    /\ \E i \in 1..Len(gdf) : gdf' = RemoveAt(gdf, i)
    /\ UNCHANGED <<fileVars, line_number, pc, in_header, hdrVars, objVars, resVars, metadata,
                   output, write_result>>

\* The caller adds a row of its own to the frame: a point with every column
\* empty and an original_id of its choice (the first id, which the index holds
\* and another row may have; an id the index does not hold) or none
AppendRow ==
    /\ pc = "read"
    /\ Len(gdf) < MaxRows
    /\ \E id \in {0, MaxObjects, NoOriginalId} :
          gdf' = Append(gdf,
                    [geometry |-> Point(<<0, 0>>),
                     attributes |-> [k \in Columns(parsed_data.attributes, all_attributes) |-> NaN],
                     original_id |-> id,
                     parsed_from |-> NoOriginalId])
    /\ UNCHANGED <<fileVars, line_number, pc, in_header, hdrVars, objVars, resVars, metadata,
                   output, write_result>>

\* The caller keeps the frame and drops the metadata: write_sosi(gdf, path)
ForgetMetadata ==
    /\ pc = "read"
    /\ metadata # None
    /\ metadata' = None
    /\ UNCHANGED <<fileVars, line_number, pc, in_header, hdrVars, objVars, resVars, gdf,
                   output, write_result>>

\* ------------------------------------------------------------ write_sosi

\* str(x) of a float in hundredths: '1.0', '0.01', '2.5'
Repr(v) ==
    LET a == IF v < 0 THEN 0 - v ELSE v
        frac == a % 100
        digits ==
            IF frac % 10 = 0 THEN ToString(frac \div 10)
            ELSE ToString(frac \div 10) \o ToString(frac % 10)
    IN  (IF v < 0 THEN "-" ELSE "") \o ToString(a \div 100) \o "." \o digits

\* f'{x:.2f}' of an optional float in hundredths; 'nan', 'inf', '-inf'
Fixed2(x) ==
    IF x = NaN THEN "nan"
    ELSE IF x = Inf THEN "inf"
    ELSE IF x = NegInf THEN "-inf"
    ELSE LET v == x[1]
             a == IF v < 0 THEN 0 - v ELSE v
         IN  (IF v < 0 THEN "-" ELSE "") \o ToString(a \div 100) \o "."
             \o ToString((a % 100) \div 10) \o ToString(a % 10)

\* f'{value}' of a header value: the text, or 'None'
Text(value) == IF value = None THEN <<"None">> ELSE value

\* A header line written only if the key is in the dictionary
Optional(header, prefix, key) ==
    IF key \in DOMAIN header THEN << L(<<prefix \o key>> \o Text(header[key])) >> ELSE << >>

\* The lines written before the objects
HeaderBlock(header, extent) ==
    << L(<<".HODE">>), L(<<"..TEGNSETT", "UTF-8">>), L(<<"..TRANSPAR">>),
       L(<<"...ENHET",
           IF "ENHET" \in DOMAIN header
           THEN (IF header["ENHET"] = None THEN "None" ELSE Repr(header["ENHET"][1]))
           ELSE "0.01">>) >>
    \o Optional(header, "...", "VERT-DATUM")
    \o Optional(header, "...", "KOORDSYS")
    \o << L(<<"...ORIGO-NOE", "0", "0">>), L(<<"..OMRAADE">>),
          L(<<"...MIN-NOE", Fixed2(extent.min_n), Fixed2(extent.min_e)>>),
          L(<<"...MAX-NOE", Fixed2(extent.max_n), Fixed2(extent.max_e)>>) >>
    \o Optional(header, "..", "SOSI-VERSJON")
    \o Optional(header, "..", "SOSI-NIVAA")
    \o Optional(header, "..", "OBJEKTKATALOG")

\* A replay loop that does not remember what it has written
RECURSIVE ReplayEveryRow(_, _, _)
ReplayEveryRow(rows, index, written_ids) ==
    IF rows = << >> THEN << >>
    ELSE IF Head(rows).original_id \in DOMAIN index
    THEN index[Head(rows).original_id] \o ReplayEveryRow(Tail(rows), index, written_ids)
    ELSE ReplayEveryRow(Tail(rows), index, written_ids)

\* The lines the replay loop writes for rows, written_ids being written already
RECURSIVE Replay(_, _, _)
Replay(rows, index, written_ids) ==
    IF rows = << >> THEN << >>
    ELSE LET original_id == Head(rows).original_id
         IN  IF \/ original_id = NoOriginalId
                \/ original_id \in written_ids
                \/ original_id \notin DOMAIN index
             THEN Replay(Tail(rows), index, written_ids)
             ELSE index[original_id]
                  \o Replay(Tail(rows), index, written_ids \cup {original_id})

\* A write that reports success whatever happened
WriteSosiAlwaysTrue ==
    /\ pc = "read"
    /\ pc' = "written"
    /\ output' =
          IF metadata = None THEN HeaderBlock(EmptyDict, TotalBounds(gdf))
          ELSE HeaderBlock(metadata[1].header, metadata[1].extent)
               \o Replay(gdf, metadata[1].sosi_index, {})
               \o << L(<<".SLUTT">>) >>
    /\ write_result' = <<TRUE>>
    /\ UNCHANGED <<fileVars, line_number, in_header, hdrVars, objVars, resVars, gdf, metadata>>

\* write_sosi(gdf, output_filepath, metadata=metadata) with the default
\* use_index=True; metadata is what read_sosi returned, or None.  Without
\* metadata sosi_index is None, and len(sosi_index), evaluated for the log line
\* that precedes the replay loop, raises the TypeError that ends the write
\* after the header block.
WriteSosi ==
    /\ pc = "read"
    /\ pc' = "written"
    /\ IF metadata = None
       THEN /\ output' = HeaderBlock(EmptyDict, TotalBounds(gdf))
            /\ write_result' = <<FALSE>>
       ELSE /\ output' =
                HeaderBlock(metadata[1].header, metadata[1].extent)
                \o Replay(gdf, metadata[1].sosi_index, {})
                \o << L(<<".SLUTT">>) >>
            /\ write_result' = <<TRUE>>
    /\ UNCHANGED <<fileVars, line_number, in_header, hdrVars, objVars, resVars, gdf, metadata>>

Scan ==
    \/ SkipComment
    \/ EnterHeader
    \/ MarkerLine
    \/ HeaderLine
    \/ AttributeLine
    \/ CoordinateLine
    \/ SingleDotLine
    \/ OtherLine
    \/ IgnoreLine
    \/ EndOfFile

NextScan == ExtendScan \/ Scan

SpecScan == Init /\ [][NextScan]_vars

NextCoord == ExtendCoord \/ Scan

SpecCoord == Init /\ [][NextCoord]_vars

Next == ExtendFile \/ Scan \/ ReadSosi \/ DropRow \/ WriteSosi

Spec == Init /\ [][Next]_vars

\* ---- write_sosi with use_index=False

\* geom.exterior.coords: the ring, closed by the library
Exterior(coords) ==
    IF coords # << >> /\ coords[1] # Last(coords) THEN Append(coords, coords[1]) ELSE coords

\* The lines 'for x, y in coords' writes and whether it raises: a coordinate of
\* three components does not unpack into x, y
RECURSIVE KurveLines(_)
KurveLines(coords) ==
    IF coords = << >> THEN [lines |-> << >>, error |-> FALSE]
    ELSE IF Len(coords[1]) # 2 THEN [lines |-> << >>, error |-> TRUE]
    ELSE LET rest == KurveLines(Tail(coords))
         IN  [lines |-> << L(<<"...KURVE", Fixed2(<<coords[1][1]>>), Fixed2(<<coords[1][2]>>)>>) >>
                        \o rest.lines,
              error |-> rest.error]

\* The lines written for one row and whether writing it raises.  keys is the
\* order of the attribute columns of the frame.
RegenerateRow(row, keys) ==
    IF "OBJTYPE" \notin DOMAIN row.attributes THEN [lines |-> << >>, error |-> TRUE]
    ELSE
    LET value(k) == IF row.attributes[k] = NaN THEN <<"nan">> ELSE row.attributes[k]
        others == SelectSeq(keys, LAMBDA k : k # "OBJTYPE")
        head ==
            << L(<<".OBJTYPE">> \o value("OBJTYPE")) >>
            \o [i \in 1..Len(others) |-> L(<<".." \o others[i]>> \o value(others[i]))]
            \o << L(<<"..original_id",
                      IF row.original_id = NoOriginalId THEN "None"
                      ELSE ToString(row.original_id)>>) >>
        geom == row.geometry
        kurve ==
            IF geom.type = "Polygon" THEN KurveLines(Exterior(geom.coords))
            ELSE KurveLines(geom.coords)
    IN  IF geom.type = "Point"
        THEN [lines |-> head
                        \o << L(<<"..PUNKT", Fixed2(<<geom.coords[1][1]>>),
                                 Fixed2(<<geom.coords[1][2]>>)>>),
                              L(<<"..NOE">>) >>,
              error |-> FALSE]
        ELSE [lines |-> head
                        \o << L(<<IF geom.type = "Polygon" THEN "..FLATE" ELSE "..KURVE">>) >>
                        \o kurve.lines
                        \o (IF kurve.error THEN << >> ELSE << L(<<"..NOE">>) >>),
              error |-> kurve.error]

\* The lines the loop over the rows writes until it ends or a row raises
RECURSIVE Regenerate(_, _)
Regenerate(rows, keys) ==
    IF rows = << >> THEN [lines |-> << >>, error |-> FALSE]
    ELSE LET first == RegenerateRow(Head(rows), keys)
             rest == Regenerate(Tail(rows), keys)
         IN  IF first.error THEN first
             ELSE [lines |-> first.lines \o rest.lines, error |-> rest.error]

\* write_sosi(gdf, output_filepath, metadata=metadata, use_index=False).  The
\* attribute columns come in the order the frame has them, which the records
\* of the model do not keep: any order.
WriteSosiWithoutIndex ==
    /\ pc = "read"
    /\ pc' = "regenerated"
    /\ LET columns == IF gdf = << >> THEN {} ELSE DOMAIN gdf[1].attributes
           header ==
               IF metadata = None THEN HeaderBlock(EmptyDict, TotalBounds(gdf))
               ELSE HeaderBlock(metadata[1].header, metadata[1].extent)
       IN  \E keys \in {k \in [1..Cardinality(columns) -> columns] :
                           \A i, j \in DOMAIN k : k[i] = k[j] => i = j} :
              LET objects == Regenerate(gdf, keys)
              IN  IF objects.error
                  THEN /\ output' = header \o objects.lines
                       /\ write_result' = <<FALSE>>
                  ELSE /\ output' = header \o objects.lines \o << L(<<".SLUTT">>) >>
                       /\ write_result' = <<TRUE>>
    /\ UNCHANGED <<fileVars, line_number, in_header, hdrVars, objVars, resVars, gdf, metadata>>

NextWrite ==
    \/ ExtendWrite \/ Scan \/ ReadSosi \/ DropRow \/ AppendRow \/ ForgetMetadata
    \/ WriteSosi \/ WriteSosiWithoutIndex

SpecWrite == Init /\ [][NextWrite]_vars

\* ---- reading the written file

\* The caller reads the file that write_sosi reported as written for a frame
\* with rows: _read_sosi_file starts on its lines.  The frame and the metadata
\* of the earlier read are kept until read_sosi returns again.  A file that
\* is, line for line, the file that was read is not read again.
ReadBack ==
    /\ pc \in {"written", "regenerated"}
    /\ write_result = <<TRUE>>
    /\ gdf # << >>
    /\ file # output
    /\ file' = output
    /\ file_encoding' = "utf-8-sig"
    /\ line_number' = 0
    /\ pc' = "scan"
    /\ in_header' = FALSE
    /\ current_section' = None
    /\ enhet_scale' = None
    /\ header_metadata' =
        [k \in {"ENHET", "VERT-DATUM", "KOORDSYS", "ORIGO-NOE", "SOSI-VERSJON",
                "SOSI-NIVAA", "OBJEKTKATALOG"} |-> None]
    /\ header_extent' = [min_n |-> None, min_e |-> None, max_n |-> None, max_e |-> None]
    /\ capturing' = FALSE
    /\ geom_type' = None
    /\ current_attributes' = EmptyDict
    /\ coordinates' = << >>
    /\ flate_refs' = << >>
    /\ expecting_coordinates' = FALSE
    /\ coordinate_dim' = None
    /\ current_object' = << >>
    /\ object_id' = 0
    /\ sosi_index' = EmptyDict
    /\ kurve_coordinates' = EmptyDict
    /\ parsed_data' = [geometry |-> << >>, attributes |-> << >>]
    /\ all_attributes' = {}
    /\ emitted_from' = << >>
    /\ UNCHANGED <<gdf, metadata, output, write_result>>

NextRoundTrip ==
    \/ ExtendRoundTrip \/ Scan \/ ReadSosi \/ WriteSosi \/ WriteSosiWithoutIndex \/ ReadBack

SpecRoundTrip == Init /\ [][NextRoundTrip]_vars

\* ---- _convert_to_2d_if_mixed on its own

\* The 2- and 3-tuples over two values per component
CoordinateTuples ==
    {<<x, y>> : x \in {1, 2}, y \in {1, 2}}
    \cup {<<x, y, z>> : x \in {1, 2}, y \in {1, 2}, z \in {1, 2}}

\* The non-empty lists of at most MaxLen such tuples
CoordinateLists == UNION {[1..n -> CoordinateTuples] : n \in 1..MaxLen}

\* A call _convert_to_2d_if_mixed(coordinates, coordinate_dim) is about to be made
InitConvert ==
    /\ pc = "convert"
    /\ coordinates \in CoordinateLists
    /\ coordinate_dim \in {<<2>>, <<3>>}
    /\ file = << >>
    /\ file_encoding = "utf-8-sig"
    /\ line_number = 0
    /\ in_header = FALSE
    /\ current_section = None
    /\ enhet_scale = None
    /\ header_metadata =
        [k \in {"ENHET", "VERT-DATUM", "KOORDSYS", "ORIGO-NOE", "SOSI-VERSJON",
                "SOSI-NIVAA", "OBJEKTKATALOG"} |-> None]
    /\ header_extent = [min_n |-> None, min_e |-> None, max_n |-> None, max_e |-> None]
    /\ capturing = FALSE
    /\ geom_type = None
    /\ current_attributes = EmptyDict
    /\ flate_refs = << >>
    /\ expecting_coordinates = FALSE
    /\ current_object = << >>
    /\ object_id = 0
    /\ sosi_index = EmptyDict
    /\ kurve_coordinates = EmptyDict
    /\ parsed_data = [geometry |-> << >>, attributes |-> << >>]
    /\ all_attributes = {}
    /\ emitted_from = << >>
    /\ gdf = << >>
    /\ metadata = None
    /\ output = << >>
    /\ write_result = None

\* The call returns (the returned list is kept in coordinates) or raises the
\* ValueError of an unpacking that does not fit
Convert ==
    /\ pc = "convert"
    /\ LET conv == ConvertTo2dIfMixed(coordinates, coordinate_dim)
       IN  IF conv.error
           THEN pc' = "failed" /\ UNCHANGED coordinates
           ELSE pc' = "converted" /\ coordinates' = conv.value
    /\ UNCHANGED <<fileVars, line_number, in_header, hdrVars, capturing, geom_type,
                   current_attributes, flate_refs, expecting_coordinates, coordinate_dim,
                   current_object, resVars, outVars>>

NextConvert == Convert

SpecConvert == InitConvert /\ [][NextConvert]_vars

\* ---- the encoding of the file

\* A whole file is about to be read
InitEncoding ==
    /\ pc = "detect"
    /\ file \in EncodingFiles
    /\ file_encoding = "utf-8-sig"
    /\ line_number = 0
    /\ in_header = FALSE
    /\ current_section = None
    /\ enhet_scale = None
    /\ header_metadata =
        [k \in {"ENHET", "VERT-DATUM", "KOORDSYS", "ORIGO-NOE", "SOSI-VERSJON",
                "SOSI-NIVAA", "OBJEKTKATALOG"} |-> None]
    /\ header_extent = [min_n |-> None, min_e |-> None, max_n |-> None, max_e |-> None]
    /\ capturing = FALSE
    /\ geom_type = None
    /\ current_attributes = EmptyDict
    /\ coordinates = << >>
    /\ flate_refs = << >>
    /\ expecting_coordinates = FALSE
    /\ coordinate_dim = None
    /\ current_object = << >>
    /\ object_id = 0
    /\ sosi_index = EmptyDict
    /\ kurve_coordinates = EmptyDict
    /\ parsed_data = [geometry |-> << >>, attributes |-> << >>]
    /\ all_attributes = {}
    /\ emitted_from = << >>
    /\ gdf = << >>
    /\ metadata = None
    /\ output = << >>
    /\ write_result = None

\* encoding_map.get(specified_encoding, default)
EncodingMap(specified_encoding, default) ==
    IF specified_encoding = "ISO8859-10" THEN "iso-8859-10"
    ELSE IF specified_encoding = "ISO8859-1" THEN "iso-8859-1"
    ELSE IF specified_encoding = "UTF-8" THEN "utf-8-sig"
    ELSE IF specified_encoding = "ANSI" THEN "cp1252"
    ELSE default

\* The line at which the loop over the lines breaks: the first ..TEGNSETT,
\* .KURVE or .PUNKT line (one past the end if there is none)
RECURSIVE BreakLine(_, _)
BreakLine(lines, i) ==
    IF i > Len(lines) THEN i
    ELSE IF \/ LineStartsWith(Strip(lines[i]), "..TEGNSETT")
            \/ LineStartsWith(Strip(lines[i]), ".KURVE")
            \/ LineStartsWith(Strip(lines[i]), ".PUNKT")
    THEN i
    ELSE BreakLine(lines, i + 1)

\* The search for the declaration.  The UTF-8 pass raises UnicodeDecodeError
\* if a byte that is no UTF-8 lies in what it has decoded: the lines up to the
\* break and as many lines after it as the reader has decoded ahead (ahead).
\* The ISO-8859-1 pass that follows the error runs the same loop with another
\* default; it cannot raise, so file_encoding stays what it was when it finds
\* no declaration.
DetectEncoding ==
    /\ pc = "detect"
    /\ pc' = "scan"
    /\ \E ahead \in 0..Len(file) :
          LET stop == BreakLine(file, 1)
              decoded == IF stop + ahead > Len(file) THEN Len(file) ELSE stop + ahead
              raises == \E i \in 1..decoded : ~Decodes(file[i], "utf-8-sig")
              found == stop <= Len(file) /\ LineStartsWith(Strip(file[stop]), "..TEGNSETT")
          IN  file_encoding' =
                 IF found
                 THEN EncodingMap(Last(Strip(file[stop])),
                                  IF raises THEN "iso-8859-1" ELSE "utf-8-sig")
                 ELSE file_encoding
    /\ UNCHANGED <<file, line_number, in_header, hdrVars, objVars, resVars, outVars>>

\* Reading the file for the scan raises UnicodeDecodeError: a byte that
\* file_encoding cannot decode lies in the next line or in the lines the reader
\* decodes ahead of it
DecodeError ==
    /\ pc = "scan"
    /\ \E i \in (line_number + 1)..Len(file) : ~Decodes(file[i], file_encoding)
    /\ Fail
    /\ UNCHANGED <<fileVars, in_header, hdrVars, objVars, resVars, outVars>>

NextEncoding == DetectEncoding \/ Scan \/ DecodeError

SpecEncoding == InitEncoding /\ [][NextEncoding]_vars

\* ============================================================ properties

\* ------------------------------------------------- the file, block by block

\* The line numbers of the geometry marker lines of the file
MarkerPositions(lines) == {i \in 1..Len(lines) : IsGeometryMarker(Strip(lines[i]))}

\* The marker line of block n (blocks are numbered from 0 in file order)
NthMarker(lines, n) ==
    CHOOSE p \in MarkerPositions(lines) :
        Cardinality({q \in MarkerPositions(lines) : q < p}) = n

\* The last line of the block opened at line p: the line before the next
\* marker or terminator line, or the last line of the file
BlockEnd(lines, p) ==
    IF \E j \in (p + 1)..Len(lines) : IsObjectBoundary(Strip(lines[j]))
    THEN (CHOOSE j \in (p + 1)..Len(lines) :
            /\ IsObjectBoundary(Strip(lines[j]))
            /\ \A k \in (p + 1)..(j - 1) : ~IsObjectBoundary(Strip(lines[k]))) - 1
    ELSE Len(lines)

\* Block n of the file, verbatim
OriginalBlock(lines, n) ==
    SubSeq(lines, NthMarker(lines, n), BlockEnd(lines, NthMarker(lines, n)))

RECURSIVE OriginalBlocksFrom(_, _)
OriginalBlocksFrom(lines, n) ==
    IF n >= GeometryBlocks(lines) THEN << >>
    ELSE OriginalBlock(lines, n) \o OriginalBlocksFrom(lines, n + 1)

\* What write_sosi wrote between its header block and its terminator line
ObjectSection ==
    SubSeq(output, Len(HeaderBlock(metadata[1].header, metadata[1].extent)) + 1,
           Len(output) - 1)

\* The open object is closed by the marker or terminator line read in this step
ClosedByLine ==
    /\ pc = "scan" /\ capturing
    /\ line_number < Len(file)
    /\ IsObjectBoundary(stripped_line)
    /\ line_number' = line_number + 1

\* The open object is closed by the end of the input in this step (in a file
\* that states ENHET)
ClosedByEnd ==
    /\ pc = "scan" /\ capturing
    /\ line_number = Len(file)
    /\ pc' # "scan"
    /\ enhet_scale # None

Closed == ClosedByLine \/ ClosedByEnd

\* This step appends exactly the record (geom, some attributes)
Emits(geom) ==
    /\ parsed_data'.geometry = Append(parsed_data.geometry, geom)
    /\ Len(parsed_data'.attributes) = Len(parsed_data.attributes) + 1

\* This step appends nothing to the records
EmitsNothing == parsed_data' = parsed_data

\* C1 (as claimed): a file parsed by read_sosi and written in replay mode from
\* the unmodified frame and the returned metadata has as its object section
\* exactly the original object blocks, verbatim, each once, in file order.
C1_RoundTripReplaysEveryBlock ==
    (pc = "written" /\ Unmodified) => ObjectSection = OriginalBlocksFrom(file, 0)

C3_DenseObjectIds ==
    /\ pc = "scan" => DOMAIN sosi_index = 0..(object_id - 1)
    /\ pc = "parsed" =>
        /\ DOMAIN sosi_index = 0..(GeometryBlocks(file) - 1)
        /\ \A k \in DOMAIN sosi_index : sosi_index[k][1] = file[NthMarker(file, k)]

\* Line i is read in header mode: a .HODE line precedes it with no marker or
\* terminator line in between
HeaderModeAt(lines, i) ==
    \E h \in 1..(i - 1) :
        /\ Strip(lines[h]) = <<".HODE">>
        /\ \A j \in (h + 1)..i : ~IsObjectBoundary(Strip(lines[j]))

IsTwoDot(stripped) == LineStartsWith(stripped, "..") /\ ~LineStartsWith(stripped, "...")

\* Line i is a ...ENHET line of the header's ..TRANSPAR subsection: the last
\* two-dot header line before it is ..TRANSPAR
EnhetUnderTranspar(lines, i) ==
    /\ Len(Strip(lines[i])) >= 1
    /\ Strip(lines[i])[1] = "...ENHET"
    /\ HeaderModeAt(lines, i)
    /\ \E t \in 1..(i - 1) :
        /\ Strip(lines[t])[1] = "..TRANSPAR"
        /\ HeaderModeAt(lines, t)
        /\ \A j \in (t + 1)..(i - 1) : ~(IsTwoDot(Strip(lines[j])) /\ HeaderModeAt(lines, j))

StatesEnhet(lines) == \E i \in 1..Len(lines) : EnhetUnderTranspar(lines, i)

\* C4: a parse of a file with no ...ENHET line in the ..TRANSPAR subsection of
\* its header never returns (it ends in the fatal error), and no unit scale
\* exists that such a line did not give.
C4_MissingEnhetIsFatal ==
    /\ enhet_scale # None => StatesEnhet(SubSeq(file, 1, line_number))
    /\ (pc # "scan" /\ ~StatesEnhet(file)) =>
            (pc = "failed" /\ gdf = << >> /\ metadata = None)

\* C4 witness: the end of a file with a geometry block and ENHET under
\* ..OMRÅDE, the parse failed.
C4_Witness ==
    /\ pc = "failed"
    /\ line_number = Len(file)
    /\ GeometryBlocks(file) >= 1
    /\ file[2] = L(<<"..OMRAADE">>)
    /\ file[3] = L(<<"...ENHET", "1">>)

\* C5 (as claimed): a .PUNKT object closed with zero or several coordinates
\* adds no record (no geometry, no attribute entry), raises no error and has
\* its raw lines stored under its own object_id; closed with one coordinate it
\* is emitted as a Point there.  Wherever it stands, the last block included.
C5_PointRecords ==
    [][(Closed /\ geom_type = <<".PUNKT">>) =>
        /\ pc' # "failed"
        /\ object_id \in DOMAIN sosi_index'
        /\ sosi_index'[object_id] = current_object
        /\ IF Len(coordinates) = 1
           THEN Emits([type |-> "Point", coords |-> <<coordinates[1]>>])
           ELSE EmitsNothing]_vars

\* ------------------------------------------------- curves and surfaces

\* The references of the open .FLATE object that the Curve Table holds now, in
\* listed order
ResolvingRefs == SelectSeq(flate_refs, LAMBDA r : Join(r) \in DOMAIN kurve_coordinates)

\* The coordinate lists the table holds for ids, one after the other
RECURSIVE Concatenation(_)
Concatenation(ids) ==
    IF ids = << >> THEN << >>
    ELSE Concatenation(SubSeq(ids, 1, Len(ids) - 1)) \o kurve_coordinates[Join(Last(ids))]

\* The open object has coordinates and attributes: it is up for emission
Emittable == coordinates # << >> /\ DOMAIN current_attributes # {}

\* This step appends exactly one record
EmitsOne ==
    /\ Len(parsed_data'.geometry) = Len(parsed_data.geometry) + 1
    /\ Len(parsed_data'.attributes) = Len(parsed_data.attributes) + 1
    /\ SubSeq(parsed_data'.geometry, 1, Len(parsed_data.geometry)) = parsed_data.geometry

OpenMarker ==
    CHOOSE m \in 1..line_number :
        /\ IsObjectBoundary(Strip(file[m]))
        /\ \A j \in (m + 1)..line_number : ~IsObjectBoundary(Strip(file[j]))

\* Line k of the file stands in a block that a .KURVE line opens
InCurveBlock(k) ==
    \E g \in 1..(k - 1) :
        /\ Strip(file[g]) # << >>
        /\ Strip(file[g])[1] = ".KURVE"
        /\ \A h \in (g + 1)..k : ~IsObjectBoundary(Strip(file[h]))

\* The ids the curve blocks before line m can be known by: the last token of
\* an OBJTYPE line of theirs, or an id made from the number of a block
CurveIdsBefore(m) ==
    {"kurve_" \o ToString(n) : n \in 0..(Cardinality(MarkerPositions(SubSeq(file, 1, m - 1))) - 1)}
    \cup {Last(Strip(file[k])) : k \in
            {j \in 1..(m - 1) :
                /\ Len(Strip(file[j])) >= 2
                /\ Strip(file[j])[1] = "..OBJTYPE"
                /\ InCurveBlock(j)}}

\* The ids that the lines of the open object starting with KP name
OpenRefIds ==
    {Join(Strip(file[k])) : k \in
        {j \in (OpenMarker + 1)..line_number :
            /\ Strip(file[j]) # << >>
            /\ StartsWith(Strip(file[j])[1], "KP")}}

\* C8: no lookahead.  A surface is built only from curves whose blocks stand
\* before it: a reference to a curve defined later contributes nothing and
\* raises no error, so a surface none of whose references names an earlier
\* curve is emitted as the fallback point; and no step changes a geometry
\* already emitted.
C8_NoLookahead ==
    [][/\ Len(parsed_data'.geometry) >= Len(parsed_data.geometry)
       /\ SubSeq(parsed_data'.geometry, 1, Len(parsed_data.geometry))
            = parsed_data.geometry
       /\ (Closed /\ geom_type = <<".FLATE">>
             /\ OpenRefIds \cap CurveIdsBefore(OpenMarker) = {}) =>
            /\ pc' # "failed"
            /\ Emittable => EmitsOne
            /\ EmitsOne => Last(parsed_data'.geometry).type = "Point"]_vars

\* C8 witness: the surface referring to KP1 and KP2 stands first, the curve KP1
\* after it; both are closed, the surface is a point and the curve a line.
C8_Witness ==
    /\ pc = "parsed"
    /\ Len(parsed_data.geometry) >= 2
    /\ emitted_from[1] = 0 /\ emitted_from[2] = 1
    /\ file[NthMarker(file, 0)] = L(<<".FLATE", "10:">>)
    /\ file[NthMarker(file, 1)] = L(<<".KURVE", "4:">>)
    /\ "KP1" \in DOMAIN kurve_coordinates
    /\ parsed_data.geometry[1].type = "Point"
    /\ parsed_data.geometry[2].type = "LineString"

\* The coordinates of the open object can be brought to one dimensionality
Normalizes == ~ConvertTo2dIfMixed(coordinates, coordinate_dim).error

\* The open .KURVE object has an OBJTYPE value, or no OBJTYPE and ENDRET H
HasCurveId ==
    \/ "OBJTYPE" \in DOMAIN current_attributes /\ current_attributes["OBJTYPE"] # NaN
    \/ /\ "OBJTYPE" \notin DOMAIN current_attributes
       /\ "ENDRET" \in DOMAIN current_attributes
       /\ current_attributes["ENDRET"] = <<"H">>

\* The id it is known by: the last token of OBJTYPE, else the synthetic id
CurveId ==
    IF "OBJTYPE" \in DOMAIN current_attributes
    THEN current_attributes["OBJTYPE"][Len(current_attributes["OBJTYPE"])]
    ELSE "kurve_" \o ToString(object_id)

\* The step registers the open curve under CurveId (when a line closes it: at
\* the end of the input no surface can follow) and emits it as a line
RegistersAndEmitsCurve ==
    /\ pc' # "failed"
    /\ ClosedByLine =>
        /\ CurveId \in DOMAIN kurve_coordinates'
        /\ kurve_coordinates'[CurveId] = ConvertTo2dIfMixed(coordinates, coordinate_dim).value
    /\ EmitsOne
    /\ Last(parsed_data'.geometry) =
        [type |-> "LineString",
         coords |-> ConvertTo2dIfMixed(coordinates, coordinate_dim).value]

C10_CurveWithoutIdIsFatal ==
    [][(/\ pc = "scan" /\ capturing /\ geom_type = <<".KURVE">>
        /\ \/ line_number < Len(file) /\ IsObjectBoundary(stripped_line)
                /\ line_number' = line_number + 1
           \/ line_number = Len(file) /\ pc' # "scan"
        /\ "OBJTYPE" \notin DOMAIN current_attributes
        /\ ~("ENDRET" \in DOMAIN current_attributes
               /\ current_attributes["ENDRET"] = <<"H">>))
        => (pc' = "failed" /\ parsed_data' = parsed_data)]_vars

\* ------------------------------------------------------------ coordinates

\* The line read in this step is a line of an open object that has no leading
\* dot and stands where coordinates are expected
CoordinateExpected ==
    /\ Scanning /\ capturing /\ ~in_header
    /\ expecting_coordinates
    /\ ~IsComment(stripped_line)
    /\ ~LineStartsWith(stripped_line, ".")

\* c is what the line with the tokens t says when read as north, east[, height]
SaysNorthEast(t, c) ==
    /\ Len(t) >= Len(c)
    /\ \A k \in 1..Len(c) : IsFloat(t[k])
    /\ c[1] = ToFloat(t[2])
    /\ c[2] = ToFloat(t[1])
    /\ Len(c) = 3 => c[3] = ToFloat(t[3])

\* c has the axes of the stored coordinate d, in d's order
SameAxes(c, d) ==
    /\ c[1] = d[1] /\ c[2] = d[2]
    /\ Len(c) = 3 => (Len(d) = 3 /\ c[3] = d[3])

\* Every coordinate of cs has the axes of a coordinate stored for the open
\* object or held by the Curve Table
FromStored(cs) ==
    \A j \in 1..Len(cs) :
        \/ \E k \in 1..Len(coordinates) : SameAxes(cs[j], coordinates[k])
        \/ \E id \in DOMAIN kurve_coordinates :
              \E k \in 1..Len(kurve_coordinates[id]) :
                  SameAxes(cs[j], kurve_coordinates[id][k])

\* What this step emits and what it enters in the Curve Table keeps the order
\* of the stored coordinates
KeepsStoredOrder ==
    /\ Len(parsed_data'.geometry) > Len(parsed_data.geometry) =>
          FromStored(Last(parsed_data'.geometry).coords)
    /\ \A id \in DOMAIN kurve_coordinates' :
          (id \notin DOMAIN kurve_coordinates
             \/ kurve_coordinates'[id] # kurve_coordinates[id])
          => FromStored(kurve_coordinates'[id])

\* C11: a line 'N E' read under ..NØ is stored as (E, N), a line 'N E H' read
\* under ..NØH as (E, N, H); what is emitted, and what the Curve Table is
\* given, has its axes in the order of the stored coordinates, so every
\* coordinate of every emitted geometry is in the order east, north[, height].
C11_AxisSwap ==
    [][/\ (CoordinateExpected /\ pc' = "scan") =>
            /\ Len(coordinates') = Len(coordinates) + 1
            /\ SubSeq(coordinates', 1, Len(coordinates)) = coordinates
            /\ Len(Last(coordinates')) = coordinate_dim[1]
            /\ SaysNorthEast(stripped_line, Last(coordinates'))
       /\ KeepsStoredOrder]_vars

\* C11 witness: the point of the line '1000.00 2000.00' was emitted at
\* (2000.00, 1000.00), and a 3D point of the line '1 2 3' at (2, 1, 3).
C11_Witness ==
    /\ \E i \in 1..Len(parsed_data.geometry) :
        parsed_data.geometry[i] = [type |-> "Point", coords |-> << <<200000, 100000>> >>]
    /\ \E i \in 1..Len(parsed_data.geometry) :
        parsed_data.geometry[i] = [type |-> "Point", coords |-> << <<200, 100, 300>> >>]

\* The line with the tokens t has fewer than dim components, or one of its
\* first dim components is no number
Malformed(t, dim) ==
    \/ Len(t) < dim
    \/ \E k \in 1..dim : k <= Len(t) /\ ~IsFloat(t[k])

\* C12: while coordinates are expected in an open object, a line without a
\* leading dot that has fewer than dim components, or a component among the
\* first dim that is no number, ends the parse in the fatal error: the line
\* adds no coordinate, nothing is returned, and a failed parse stays failed.
C12_MalformedCoordinateIsFatal ==
    [][/\ (CoordinateExpected /\ Malformed(stripped_line, coordinate_dim[1])) =>
            /\ pc' = "failed"
            /\ coordinates' = coordinates
            /\ parsed_data' = parsed_data
       /\ pc = "failed" => (pc' = "failed" /\ parsed_data' = parsed_data)]_vars

\* C12 witness: the parse failed on the line '1 2' read under ..NØH, after an
\* earlier object was read without error.
C12_Witness ==
    /\ pc = "failed"
    /\ object_id >= 1
    /\ coordinate_dim = <<3>>
    /\ Strip(file[line_number]) = <<"1", "2">>
    /\ coordinates = << >>

C14_ScaledOnce ==
    (pc = "read" /\ Unmodified) =>
        /\ Len(gdf) <= Len(parsed_data.geometry)
        /\ \A i \in 1..Len(gdf) :
            /\ gdf[i].geometry.type = parsed_data.geometry[i].type
            /\ Len(gdf[i].geometry.coords) = Len(parsed_data.geometry[i].coords)
            /\ \A j \in 1..Len(gdf[i].geometry.coords) :
                /\ Len(gdf[i].geometry.coords[j]) = Len(parsed_data.geometry[i].coords[j])
                /\ gdf[i].geometry.coords[j][1] * 100
                     = parsed_data.geometry[i].coords[j][1] * enhet_scale[1]
                /\ gdf[i].geometry.coords[j][2] * 100
                     = parsed_data.geometry[i].coords[j][2] * enhet_scale[1]
                /\ Len(gdf[i].geometry.coords[j]) = 3 =>
                     gdf[i].geometry.coords[j][3] = parsed_data.geometry[i].coords[j][3]
            /\ enhet_scale = <<100>> => gdf[i].geometry = parsed_data.geometry[i]

\* C14 witness: under ENHET 0.01 the point of the line '1 2 3' is at
\* (0.02, 0.01, 3) in the frame.
C14_Witness ==
    /\ pc = "read"
    /\ enhet_scale = <<1>>
    /\ \E i \in 1..Len(gdf) :
        gdf[i].geometry = [type |-> "Point", coords |-> << <<2, 1, 300>> >>]


\* ---- replay and default write

\* Row i is the first row of the frame with its original_id, and the index has it
FirstOccurrence(i) ==
    /\ gdf[i].original_id # NoOriginalId
    /\ gdf[i].original_id \in DOMAIN metadata[1].sosi_index
    /\ \A j \in 1..(i - 1) : gdf[j].original_id # gdf[i].original_id

\* The buffers of the first occurrences among rows i.. of the frame, in row order
RECURSIVE BuffersFrom(_)
BuffersFrom(i) ==
    IF i > Len(gdf) THEN << >>
    ELSE (IF FirstOccurrence(i) THEN metadata[1].sosi_index[gdf[i].original_id] ELSE << >>)
         \o BuffersFrom(i + 1)

\* C15: a replay write with the metadata of read_sosi succeeds for any frame,
\* and what it writes between the header block and the terminator is one buffer
\* of the index for each id that occurs in the frame and in the index, in the
\* order of the first occurrence of the ids in the frame; rows with a repeated
\* id, an id the index lacks or no id add nothing.
C15_ReplayOncePerId ==
    (pc = "written" /\ metadata # None) =>
        /\ write_result = <<TRUE>>
        /\ output[Len(output)] = L(<<".SLUTT">>)
        /\ ObjectSection = BuffersFrom(1)

C15_Witness ==
    /\ pc = "written"
    /\ metadata # None
    /\ write_result = <<TRUE>>
    /\ Len(gdf) = 4
    /\ \E i, j, k, l \in 1..4 :
          /\ i < j
          /\ gdf[i].original_id = 0
          /\ gdf[j].original_id = 0
          /\ 0 \in DOMAIN metadata[1].sosi_index
          /\ gdf[k].original_id = MaxObjects
          /\ gdf[l].original_id = NoOriginalId
    /\ ObjectSection = metadata[1].sosi_index[0]


\* C16: a write without metadata and with the default use_index returns True
\* and leaves a complete file: the header block with the default ENHET and the
\* extent computed from the frame, then the terminator line.
C16_DefaultWriteComplete ==
    (pc = "written" /\ metadata = None) =>
        /\ write_result = <<TRUE>>
        /\ Len(output) > Len(HeaderBlock(EmptyDict, TotalBounds(gdf)))
        /\ SubSeq(output, 1, Len(HeaderBlock(EmptyDict, TotalBounds(gdf))))
               = HeaderBlock(EmptyDict, TotalBounds(gdf))
        /\ output[Len(output)] = L(<<".SLUTT">>)


\* The extent of the rows with northing (the second axis of a geometry) first
NorthingFirst(rows) ==
    [min_n |-> <<SetMin(AxisValues(rows, 2))>>, min_e |-> <<SetMin(AxisValues(rows, 1))>>,
     max_n |-> <<SetMax(AxisValues(rows, 2))>>, max_e |-> <<SetMax(AxisValues(rows, 1))>>]

\* C17: the extent in the metadata of read_sosi is (min northing, min easting,
\* max northing, max easting) of the geometries read, and a write with that
\* metadata has the MIN-NOE and MAX-NOE lines with northing first, easting second.
C17_ExtentNorthingFirst ==
    /\ (pc = "read" /\ Unmodified /\ AxisValues(gdf, 1) # {}) =>
           metadata[1].extent = NorthingFirst(gdf)
    /\ (pc = "written" /\ metadata # None /\ Unmodified /\ AxisValues(gdf, 1) # {}) =>
           \E i \in 1..(Len(output) - 1) :
              /\ output[i] = L(<<"...MIN-NOE", Fixed2(NorthingFirst(gdf).min_n),
                                 Fixed2(NorthingFirst(gdf).min_e)>>)
              /\ output[i + 1] = L(<<"...MAX-NOE", Fixed2(NorthingFirst(gdf).max_n),
                                     Fixed2(NorthingFirst(gdf).max_e)>>)


\* ---- terminator, comments, references

\* A .SLUTT line is among the lines the scan has consumed
TerminatorSeen ==
    \E i \in 1..line_number : LineStartsWith(Strip(file[i]), ".SLUTT")

\* C18: once the scan has consumed a .SLUTT line, no later step of the scan
\* (a later line or the end of the file) changes the records, the attribute
\* keys, the curve table, the raw-line index or the object id.
C18_TerminatorEndsScan ==
    [][(pc = "scan" /\ TerminatorSeen) =>
          /\ parsed_data' = parsed_data
          /\ all_attributes' = all_attributes
          /\ kurve_coordinates' = kurve_coordinates
          /\ sosi_index' = sosi_index
          /\ object_id' = object_id]_vars


\* C19: in every state of the scan (header mode, between objects, inside an
\* attribute list, inside a coordinate block) the step over a line that starts
\* with '!' moves to the next line and changes nothing else: the records, the
\* header metadata and extent, the object id, the raw-line buffer, header mode
\* and expecting_coordinates are the same for the following line.
C19_CommentsIgnored ==
    [][(Scanning /\ LineStartsWith(stripped_line, "!") /\ file' = file) =>
          /\ line_number' = line_number + 1
          /\ UNCHANGED <<pc, in_header, hdrVars, objVars, resVars, outVars>>]_vars

C19_Witness ==
    /\ pc = "parsed"
    /\ SubSeq(file, 1, Len(GoodHeader)) = GoodHeader
    /\ enhet_scale = <<100>>
    /\ \E i \in 1..Len(emitted_from) :
          /\ file[NthMarker(file, emitted_from[i])] = L(<<".PUNKT", "30:">>)
          /\ parsed_data.geometry[i] = Point(<<200, 100>>)
          /\ parsed_data.attributes[i] = [X |-> <<"v">>]
          /\ sosi_index[emitted_from[i]] =
                << L(<<".PUNKT", "30:">>), L(<<"..X", "v">>), L(<<"..NOE">>), L(<<"1", "2">>) >>


\* C20: in a .FLATE object every non-dot line that begins with KP is added to
\* the references and is not parsed as a coordinate, whether or not
\* expecting_coordinates holds at that line.
C20_ReferenceNeverCoordinate ==
    [][(/\ Scanning /\ capturing /\ ~in_header /\ file' = file
        /\ geom_type = <<".FLATE">>
        /\ ~LineStartsWith(stripped_line, ".")
        /\ LineStartsWith(stripped_line, "KP")) =>
          /\ pc' = "scan"
          /\ flate_refs' = Append(flate_refs, stripped_line)
          /\ coordinates' = coordinates]_vars


\* ---- surfaces without coordinates, normalization

\* C21: a .FLATE object closed with at least one attribute and at least one
\* reference the Curve Table holds is emitted as the ring of those references,
\* whether or not it has a coordinate of its own; a .FLATE object closed with
\* no attribute adds no record.
C21_SurfaceWithoutCoordinates ==
    [][/\ (Closed /\ geom_type = <<".FLATE">> /\ DOMAIN current_attributes # {}
             /\ ResolvingRefs # << >>) =>
            /\ EmitsOne
            /\ Last(parsed_data'.geometry)
                 = [type |-> "Polygon", coords |-> Concatenation(ResolvingRefs)]
       /\ (Closed /\ geom_type = <<".FLATE">> /\ DOMAIN current_attributes = {}) =>
            EmitsNothing]_vars


\* C22: for every non-empty list of 2- and 3-tuples and every declared
\* dimension 2 or 3 the call returns, without error, a list of the same length
\* and order: every entry cut to its first two components if some entry has
\* two components; the 3-tuples as they are if none has and the dimension is
\* 3; 2-tuples otherwise.
C22_ConvertReturns ==
    [][pc = "convert" =>
          /\ pc' = "converted"
          /\ Len(coordinates') = Len(coordinates)
          /\ \A i \in 1..Len(coordinates) :
                IF \E j \in 1..Len(coordinates) : Len(coordinates[j]) = 2
                THEN coordinates'[i] = <<coordinates[i][1], coordinates[i][2]>>
                ELSE IF coordinate_dim = <<3>>
                THEN coordinates'[i] = coordinates[i]
                ELSE coordinates'[i] = <<coordinates[i][1], coordinates[i][2]>>]_vars


\* ---- encoding

\* No line of the file is a ..TEGNSETT line
NoDeclaration == \A i \in 1..Len(file) : ~LineStartsWith(Strip(file[i]), "..TEGNSETT")

\* A byte that is no UTF-8 lies in the lines up to the one the search breaks at
Utf8ScanFails ==
    \E i \in 1..Len(file) : i <= BreakLine(file, 1) /\ ~Decodes(file[i], "utf-8-sig")

\* C23: when the UTF-8 pass of the search for the declaration fails to decode
\* and the file holds no declaration, the encoding resolved for the file is
\* ISO-8859-1, and the scan passes the line with the byte that is no UTF-8
\* instead of ending in a decode error.
C23_Latin1Fallback ==
    [][/\ (pc = "detect" /\ Utf8ScanFails /\ NoDeclaration) => file_encoding' = "iso-8859-1"
       /\ (/\ pc = "scan" /\ line_number < Len(file) /\ NoDeclaration
           /\ ~Decodes(file[line_number + 1], "utf-8-sig")) => pc' = "scan"]_vars


\* Line i of the file follows a geometry marker line (.KURVE, .PUNKT or .FLATE)
AfterGeometryMarker(i) == \E m \in 1..(i - 1) : IsGeometryMarker(Strip(file[m]))

\* C24: the search for the declaration stops at the first geometry marker line
\* (.KURVE, .PUNKT or .FLATE): when every ..TEGNSETT line of the file follows a
\* geometry marker, the encoding resolved is the UTF-8 default.
C24_SearchStopsAtMarker ==
    [][(/\ pc = "detect"
        /\ \A i \in 1..Len(file) :
              LineStartsWith(Strip(file[i]), "..TEGNSETT") => AfterGeometryMarker(i)) =>
          file_encoding' = "utf-8-sig"]_vars


\* ---- header mode

\* The key of a three-dot line
HeaderKey(stripped) == DropChars(stripped[1], 3)

\* The line is a two-dot line of a subsection the parser does not know, or a
\* three-dot line whose key it does not know under the current subsection
Unrecognized(stripped) ==
    \/ IsTwoDot(stripped) /\ stripped[1] \notin {"..TRANSPAR", "..OMRAADE"}
    \/ /\ LineStartsWith(stripped, "...")
       /\ ~(/\ current_section = <<"..TRANSPAR">>
             /\ HeaderKey(stripped) \in {"ENHET", "VERT-DATUM", "KOORDSYS", "ORIGO-NOE"})
       /\ ~(/\ current_section = <<"..OMRAADE">>
             /\ HeaderKey(stripped) \in {"MIN-NOE", "MAX-NOE"})

\* C25: in header mode a line with an unknown subsection or an unknown
\* three-dot key, with or without a value after the key, changes neither the
\* header metadata nor the unit scale nor the extent, and the scan goes on.
C25_UnrecognizedHeaderLineIgnored ==
    [][(Scanning /\ in_header /\ ~IsObjectBoundary(stripped_line) /\ file' = file
        /\ Unrecognized(stripped_line)) =>
          /\ pc' = "scan"
          /\ header_metadata' = header_metadata
          /\ enhet_scale' = enhet_scale
          /\ header_extent' = header_extent]_vars


\* The subsection line i of the file stands under: the last two-dot line read
\* in header mode before it
RECURSIVE SectionBefore(_)
SectionBefore(i) ==
    IF i <= 1 THEN None
    ELSE IF HeaderModeAt(file, i - 1) /\ IsTwoDot(Strip(file[i - 1]))
    THEN <<Strip(file[i - 1])[1]>>
    ELSE SectionBefore(i - 1)

\* The next line is a header line that states a value: a three-dot line read
\* in header mode, with a key of the subsection it stands under
StatesHeaderValue ==
    /\ pc = "scan" /\ line_number < Len(file)
    /\ HeaderModeAt(file, line_number + 1)
    /\ LineStartsWith(stripped_line, "...")
    /\ \/ /\ SectionBefore(line_number + 1) = <<"..TRANSPAR">>
          /\ HeaderKey(stripped_line) \in {"ENHET", "VERT-DATUM", "KOORDSYS", "ORIGO-NOE"}
       \/ /\ SectionBefore(line_number + 1) = <<"..OMRAADE">>
          /\ HeaderKey(stripped_line) \in {"MIN-NOE", "MAX-NOE"}

\* C26: the header metadata, the unit scale and the extent change only in the
\* step over a line that follows an exact .HODE line with no marker or
\* terminator line in between and that has a key of the subsection it stands
\* under; and the step over a .HODE line or a line read in header mode leaves
\* the raw-line buffer of the open object and the index as they are.
C26_HeaderModeOnly ==
    [][/\ (\/ header_metadata' # header_metadata
           \/ enhet_scale' # enhet_scale
           \/ header_extent' # header_extent) => StatesHeaderValue
       /\ (/\ pc = "scan" /\ line_number < Len(file) /\ file' = file
           /\ \/ stripped_line = <<".HODE">>
              \/ HeaderModeAt(file, line_number + 1)) =>
            (current_object' = current_object /\ sosi_index' = sosi_index)]_vars

C26_Witness ==
    /\ pc = "parsed"
    /\ enhet_scale = <<100>>
    /\ header_metadata["KOORDSYS"] = <<"23">>
    /\ header_extent.min_n = <<100>>
    /\ \E i \in 1..Len(file) : file[i] = L(<<"...ENHET", "5">>)
    /\ \E k \in DOMAIN sosi_index :
          sosi_index[k] =
             << L(<<".PUNKT", "51:">>), Indented(<<"..X", "v">>), L(<<"..NOE">>),
                L(<<"1", "2">>) >>


\* ---- regeneration and the result of a write

\* C27: a write with use_index=False that succeeds has, for every coordinate
\* (x = easting, y = northing) of every row, a coordinate line with the two
\* values rounded to two decimals, northing first and easting second.
C27_RegeneratedNorthingFirst ==
    (pc = "regenerated" /\ write_result = <<TRUE>>) =>
        \A i \in 1..Len(gdf) : \A j \in 1..Len(gdf[i].geometry.coords) :
            \E k \in 1..Len(output) :
                /\ Len(output[k].toks) = 3
                /\ output[k].toks[1] \in {"..PUNKT", "...KURVE"}
                /\ output[k].toks[2] = Fixed2(<<gdf[i].geometry.coords[j][2]>>)
                /\ output[k].toks[3] = Fixed2(<<gdf[i].geometry.coords[j][1]>>)


\* Lines of the output with the first token t
CountLines(t) ==
    Cardinality({k \in 1..Len(output) : output[k].toks # << >> /\ output[k].toks[1] = t})

\* The output is a complete file: the header block from .HODE to the extent
\* lines, the objects (after a regeneration one closed block for each row),
\* and .SLUTT as the last line
Complete ==
    /\ output # << >>
    /\ output[1] = L(<<".HODE">>)
    /\ CountLines("...MIN-NOE") = 1 /\ CountLines("...MAX-NOE") = 1
    /\ output[Len(output)] = L(<<".SLUTT">>)
    /\ pc = "regenerated" =>
          (CountLines(".OBJTYPE") = Len(gdf) /\ CountLines("..NOE") = Len(gdf))

\* C28: write_sosi, in replay mode or in regeneration mode, returns True or
\* False, and True exactly when the output is a complete file.
C28_TrueIffComplete ==
    pc \in {"written", "regenerated"} =>
        /\ write_result \in {<<TRUE>>, <<FALSE>>}
        /\ write_result = <<TRUE>> <=> Complete

C28_Witness ==
    /\ pc = "regenerated"
    /\ write_result = <<FALSE>>
    /\ Len(gdf) >= 2
    /\ "OBJTYPE" \notin DOMAIN gdf[1].attributes
    /\ output[Len(output)] # L(<<".SLUTT">>)
    /\ CountLines("...MAX-NOE") = 1


\* ---- raw-line buffers, attribute names

\* The scanner captures line k of the file into the buffer of an open object:
\* it is no comment, no .HODE line and not read in header mode
Captured(k) ==
    /\ ~IsComment(Strip(file[k]))
    /\ Strip(file[k]) # <<".HODE">>
    /\ ~HeaderModeAt(file, k)

\* The captured lines among lines i..j of the file, in file order
RECURSIVE CapturedLines(_, _)
CapturedLines(i, j) ==
    IF i > j THEN << >>
    ELSE (IF Captured(i) THEN <<file[i]>> ELSE << >>) \o CapturedLines(i + 1, j)

\* The open object was opened by a geometry marker line
GeometryOpen == geom_type \in {<<".KURVE">>, <<".PUNKT">>, <<".FLATE">>}

AttributeKeys ==
    UNION {DOMAIN parsed_data.attributes[i] : i \in DOMAIN parsed_data.attributes}

\* No emitted record stores a coordinate-block key as an attribute
NoCoordinateBlockKeys == AttributeKeys \cap {"NOE", "NOEH"} = {}

\* C30 (as claimed): every attribute key of every emitted record is a member of
\* the document-wide attribute-name set all_attributes, and the coordinate-block
\* keys are never stored as attributes of any record.
C30_KeysInAttributeSet ==
    /\ AttributeKeys \subseteq all_attributes
    /\ NoCoordinateBlockKeys


\* ---- records and their attributes, references, coordinate blocks

\* C31 (as claimed): whenever the scan returns, the geometry list and the
\* attribute list of the result have the same length, as pairing entry i of one
\* with entry i of the other requires, whether the last object was closed by
\* .SLUTT or by the end of the input.
C31_ListsPairUp ==
    pc = "parsed" => Len(parsed_data.geometry) = Len(parsed_data.attributes)


\* C32 (as claimed): the SOSI_REF a record is emitted with is the serial number
\* on the marker line that opened the record's own block, and closing an object
\* that has a geometry to emit never fails over the line that closes it.
C32_OwnSerial ==
    [][(ClosedByLine /\ GeometryOpen /\ Emittable /\ Normalizes
            /\ (geom_type = <<".KURVE">> => HasCurveId)) =>
          /\ pc' # "failed"
          /\ (EmitsOne /\ "SOSI_REF" \in DOMAIN Last(parsed_data'.attributes)) =>
                /\ Len(Strip(file[OpenMarker])) >= 2
                /\ Last(parsed_data'.attributes)["SOSI_REF"] =
                      <<DropLast(Strip(file[OpenMarker])[2])>>]_vars


\* The lines of the open object that start with KP, whole, in file order
OpenRefLines ==
    SelectSeq([k \in 1..(line_number - OpenMarker) |-> Strip(file[OpenMarker + k])],
              LAMBDA t : LineStartsWith(t, "KP"))

\* The coordinate lists the table holds for the lines of refs that are, whole,
\* an id of the table, one after the other
RECURSIVE CoordinatesOf(_)
CoordinatesOf(refs) ==
    IF refs = << >> THEN << >>
    ELSE (IF Join(Head(refs)) \in DOMAIN kurve_coordinates
          THEN kurve_coordinates[Join(Head(refs))] ELSE << >>) \o CoordinatesOf(Tail(refs))

CapturedNow ==
    /\ Scanning /\ capturing /\ ~in_header
    /\ ~IsComment(stripped_line)
    /\ stripped_line # <<".HODE">>
    /\ ~IsObjectBoundary(stripped_line)

\* The captured line is an attribute line whose key, after its dots, is NOE or NOEH
BlockKeyLine ==
    /\ CapturedNow
    /\ LineStartsWith(stripped_line, "..")
    /\ SplitAfter(stripped_line, 2) # << >>
    /\ LStripDots(SplitAfter(stripped_line, 2)[1]) \in {"NOE", "NOEH"}

\* C34: expecting_coordinates is set by a NOE/NOEH line and by no other line;
\* it is cleared by every other attribute line, by a single-dot line that is
\* no marker and by the line that opens a new object; while it is clear, a
\* captured line without a leading dot is accepted, adds nothing to the
\* coordinate list and leaves it clear.
C34_CoordinateBlockEnds ==
    [][/\ (BlockKeyLine /\ pc' = "scan") => expecting_coordinates'
       /\ (expecting_coordinates' /\ ~expecting_coordinates) => BlockKeyLine
       /\ (CapturedNow /\ LineStartsWith(stripped_line, "..") /\ ~BlockKeyLine
              /\ pc' = "scan") => ~expecting_coordinates'
       /\ (CapturedNow /\ LineStartsWith(stripped_line, ".")
              /\ ~LineStartsWith(stripped_line, "..")) =>
            (pc' = "scan" /\ ~expecting_coordinates')
       /\ (Scanning /\ IsObjectBoundary(stripped_line) /\ ~IsComment(stripped_line)
              /\ pc' = "scan") => (~expecting_coordinates' /\ coordinates' = << >>)
       /\ (CapturedNow /\ ~expecting_coordinates /\ ~LineStartsWith(stripped_line, ".")) =>
            /\ pc' = "scan"
            /\ coordinates' = coordinates
            /\ ~expecting_coordinates']_vars

\* A point emitted at its one coordinate: the numbers after the attribute line
\* inside its coordinate block were no second coordinate
C34_Witness ==
    \E i \in DOMAIN parsed_data.attributes :
        /\ "KVALITET" \in DOMAIN parsed_data.attributes[i]
        /\ parsed_data.geometry[i] = Point(<<200, 100>>)


\* ---- round trips

\* _read_sosi_file has returned from the file that was written last
ReadAgain == pc = "parsed" /\ output # << >> /\ file = output

\* C35 (as claimed): when a file is parsed, written with write_sosi and the
\* returned metadata, and the written file is parsed, ENHET, VERT-DATUM,
\* KOORDSYS and ORIGO-NOE of the second parse are those of the first, None
\* where the first parse had None.
C35_HeaderRoundTrip ==
    ReadAgain =>
        \A k \in {"ENHET", "VERT-DATUM", "KOORDSYS", "ORIGO-NOE"} :
            header_metadata[k] = metadata[1].header[k]


\* The file written last was written without the index: every row has its
\* .OBJTYPE line, which no block of the index has
RegeneratedOutput ==
    \E i \in DOMAIN output : LineStartsWith(Strip(output[i]), ".OBJTYPE")

\* C36 (as claimed): parsing the file that was written without the index for a
\* frame of n rows returns n objects, of the kinds of the rows, in their order.
C36_RegeneratedFileParses ==
    (ReadAgain /\ RegeneratedOutput) =>
        /\ Len(parsed_data.geometry) = Len(gdf)
        /\ \A i \in DOMAIN gdf :
              i \in DOMAIN parsed_data.geometry
              /\ parsed_data.geometry[i].type = gdf[i].geometry.type

====
